---- MODULE Spec2Model ----
(***************************************************************************)
(* TPlistProtocol: the Apple XML property-list codec of Thrift.            *)
(* The model is byte level: a byte is a one-character string, a byte      *)
(* string a sequence of them.  A codec instance is a record P holding      *)
(* the transport (bytes written, bytes still to read), the lookahead      *)
(* buffer, the context stack and the active context; every method of the   *)
(* source is an operator from codec records to codec records, and every    *)
(* facade call is one action of the state machine.                         *)
(***************************************************************************)
EXTENDS Integers, Sequences, FiniteSets, TLC

VARIABLES
  wr,      \* the codec instance that writes (an oprotocol over a memory buffer)
  rd,      \* the codec instance that reads the bytes wr has written
  wire,    \* the bytes handed from the writer's buffer to the reader's
  calls,   \* the write calls made so far, in order, each with what it emitted
  open,    \* the caller's view: the containers it has begun and not yet ended
  phase,   \* "write", "wire", "read" or "done"
  rix,     \* the number of write calls the reader has mirrored
  budget,  \* the number of values the caller may still write
  edits    \* the number of changes made to the whitespace of wire

vars == <<wr, rd, wire, calls, open, phase, rix, budget, edits>>

(***************************************************************************)
(* Static data (TPlistProtocol.cpp, lines 34-90).                          *)
(***************************************************************************)
kPlistObjectStart ==
  <<"<","d","i","c","t",">">>

kPlistObjectEnd ==
  <<"<","/","d","i","c","t",">">>

kPlistArrayStart ==
  <<"<","a","r","r","a","y",">">>

kPlistArrayEnd ==
  <<"<","/","a","r","r","a","y",">">>

kPlistKeyStart ==
  <<"<","k","e","y",">">>

kPlistKeyEnd ==
  <<"<","/","k","e","y",">">>

kPlistStringStart ==
  <<"<","s","t","r","i","n","g",">">>

kPlistStringEnd ==
  <<"<","/","s","t","r","i","n","g",">">>

kPlistBinaryStart ==
  <<"<","d","a","t","a",">">>

kPlistBinaryEnd ==
  <<"<","/","d","a","t","a",">">>

kPlistIntegerStart ==
  <<"<","i","n","t","e","g","e","r",">">>

kPlistIntegerEnd ==
  <<"<","/","i","n","t","e","g","e","r",">">>

kPlistRealStart ==
  <<"<","r","e","a","l",">">>

kPlistRealEnd ==
  <<"<","/","r","e","a","l",">">>

kPlistPlistStart ==
  <<"<","p","l","i","s","t"," ","v","e","r","s","i","o","n","=","\"","1",
    ".","0","\"",">">>

kPlistPlistEnd ==
  <<"<","/","p","l","i","s","t",">">>

kPlistHeader ==
  <<"<","?","x","m","l"," ","v","e","r","s","i","o","n","=","\"","1",".",
    "0","\""," ","e","n","c","o","d","i","n","g","=","\"","U","T","F","-",
    "8","\"","?",">","\n","<","!","D","O","C","T","Y","P","E"," ","p","l",
    "i","s","t"," ","P","U","B","L","I","C"," ","\"","-","/","/","A","p",
    "p","l","e","/","/","D","T","D"," ","P","L","I","S","T"," ","1",".","0",
    "/","/","E","N","\""," ","\"","h","t","t","p",":","/","/","w","w","w",
    ".","a","p","p","l","e",".","c","o","m","/","D","T","D","s","/","P","r",
    "o","p","e","r","t","y","L","i","s","t","-","1",".","0",".","d","t","d",
    "\"",">","\n">>

kPlistStringTrue ==
  <<"<","t","r","u","e","/",">">>

kPlistStringFalse ==
  <<"<","f","a","l","s","e","/",">">>

kEscapeChars ==
  <<"\"","'",">","<","&">>

kPlistNewline == "\n"
kPlistSpace == " "
kPlistOpenTag == "<"
kPlistCloseTag == ">"
kPlistPairSeparator == " "
kPlistElemSeparator == " "

kThriftVersion1 == 1

kThriftNan == <<"N","a","N">>
kThriftInfinity == <<"I","n","f","i","n","i","t","y">>
kThriftNegativeInfinity == <<"-","I","n","f","i","n","i","t","y">>


(***************************************************************************)
(* Host arithmetic.  TLC's integers are 32 bits wide: int8_t, int16_t and   *)
(* int32_t are numbers, the 64-bit types are limbs.                        *)
(***************************************************************************)
Int32Min == -2147483647 - 1
Int32Max == 2147483647

\* std::numeric_limits<T>::min() and max() of the type named.
IntMin(type) == IF type = "int16_t" THEN -32768 ELSE Int32Min
IntMax(type) == IF type = "int16_t" THEN 32767 ELSE Int32Max

DigitChars == <<"0","1","2","3","4","5","6","7","8","9">>

\* The decimal digits of a number n <= 0, most significant first, computed
\* without negating n (the minimum of a width has no positive counterpart).
RECURSIVE NegDigits(_)
NegDigits(n) ==
  LET d == (10 - (n % 10)) % 10
      q == (n + d) \div 10
  IN IF q = 0 THEN <<DigitChars[d + 1]>>
     ELSE Append(NegDigits(q), DigitChars[d + 1])

\* An int64_t as its sign and its magnitude, a uint64_t as its value, the
\* number in four 16-bit limbs, the most significant first.
Int64(neg, l3, l2, l1, l0) == [neg |-> neg, m |-> <<l3, l2, l1, l0>>]

Zero64 == <<0, 0, 0, 0>>

\* Quotient and remainder of the limbs m by 10.
Div10(m) ==
  LET c2 == (m[1] % 10) * 65536 + m[2]
      c3 == (c2 % 10) * 65536 + m[3]
      c4 == (c3 % 10) * 65536 + m[4]
  IN [q |-> <<m[1] \div 10, c2 \div 10, c3 \div 10, c4 \div 10>>, r |-> c4 % 10]

\* The decimal digits of the limbs m, most significant first.
RECURSIVE Digits64(_)
Digits64(m) ==
  IF Div10(m).q = Zero64 THEN <<DigitChars[Div10(m).r + 1]>>
  ELSE Append(Digits64(Div10(m).q), DigitChars[Div10(m).r + 1])

\* boost::lexical_cast<std::string>(num) for an integer of the type named
\* (none of them a character type): an optional '-' and the decimal digits.
lexical_cast_string(num, type) ==
  IF type = "int64_t"
  THEN (IF num.neg THEN <<"-">> \o Digits64(num.m) ELSE Digits64(num.m))
  ELSE IF num < 0 THEN <<"-">> \o NegDigits(num) ELSE NegDigits(0 - num)

\* A double: not a number, infinite or finite, with its sign bit; the
\* finite doubles of this model are the whole numbers n.
Double(cls, neg, n) == [cls |-> cls, neg |-> neg, n |-> n]

\* boost::lexical_cast<std::string>(num) for a double, the texts the host
\* conversion can give: "nan" and "inf" with '-' for a set sign bit; for a
\* NaN with the sign bit set some hosts leave the '-' out.
lexical_cast_string_double(num) ==
  LET s == IF num.neg THEN <<"-">> ELSE <<>>
  IN CASE num.cls = "nan" -> {s \o <<"n","a","n">>, <<"n","a","n">>}
       [] num.cls = "inf" -> {s \o <<"i","n","f">>}
       [] OTHER -> {s \o NegDigits(0 - num.n)}

\* m * 10 + d in 64 bits; over says that the product left them.
Mul10Add(m, d) ==
  LET t4 == m[4] * 10 + d
      t3 == m[3] * 10 + t4 \div 65536
      t2 == m[2] * 10 + t3 \div 65536
      t1 == m[1] * 10 + t2 \div 65536
  IN [m |-> <<t1 % 65536, t2 % 65536, t3 % 65536, t4 % 65536>>,
      over |-> t1 \div 65536 > 0]

\* 0 - m modulo 2^64.
Neg64(m) ==
  LET t4 == (65535 - m[4]) + 1
      t3 == (65535 - m[3]) + t4 \div 65536
      t2 == (65535 - m[2]) + t3 \div 65536
      t1 == (65535 - m[1]) + t2 \div 65536
  IN <<t1 % 65536, t2 % 65536, t3 % 65536, t4 % 65536>>

\* The low 32 bits of the limbs m read as an int32_t.
Low32(m) ==
  IF m[3] >= 32768 THEN (m[3] - 65536) * 65536 + m[4] ELSE m[3] * 65536 + m[4]

\* Faulty variant of the conversion of writeByte: the byte is taken as an
\* unsigned character.
CastInt16_unsigned(x) == x % 256

\* (int16_t) byte, the widening conversion of writeByte.
CastInt16(x) == ((x + 32768) % 65536) - 32768

\* (int8_t) tmp, the narrowing conversion of readByte.
CastInt8(x) == ((x + 128) % 256) - 128

(***************************************************************************)
(* Contexts (TPlistContext, PlistPairContext, PlistListContext).  The      *)
(* stack holds shared pointers to distinct objects, so a context is a      *)
(* value: its class, its flags and its identity id, the number of context  *)
(* objects the codec had constructed before it.                            *)
(***************************************************************************)
TPlistContext == [kind |-> "Base", first_ |-> TRUE, colon_ |-> TRUE, id |-> 0]
PlistPairContext == [kind |-> "Pair", first_ |-> TRUE, colon_ |-> TRUE, id |-> 0]
PlistListContext == [kind |-> "List", first_ |-> TRUE, colon_ |-> TRUE, id |-> 0]

\* TPlistProtocol::TPlistProtocol over a memory buffer that holds `bytes`.
NewProtocol(bytes) ==
  [out |-> <<>>, in |-> bytes, buffer_ |-> <<>>,
   contexts_ |-> <<>>, context_ |-> TPlistContext, news |-> 1,
   exc |-> "none", ub |-> FALSE, short |-> FALSE,
   ret |-> 0, ch |-> "", data |-> <<>>, s4 |-> <<>>, s5 |-> <<>>, s6 |-> <<>>,
   val |-> <<>>, name |-> <<>>, fieldType |-> "", fieldId |-> 0,
   messageType |-> 0, seqid |-> 0, size |-> <<0, 0>>]

\* TTransport::write on the memory buffer: the bytes are appended.
trans_write(P, bytes) == [P EXCEPT !.out = @ \o bytes]

Ok(P) == P.exc = "none"

Throw(P, e) == IF Ok(P) THEN [P EXCEPT !.exc = e] ELSE P

\* uint32_t result = 0, at the start of a facade call.
Enter(P) == [P EXCEPT !.ret = 0]

\* result += n
Add(P, n) == IF Ok(P) THEN [P EXCEPT !.ret = @ + n] ELSE P

\* pushContext(c), c the object the caller has just constructed.
pushContext(P, c) ==
  IF ~Ok(P) THEN P
  ELSE [P EXCEPT !.contexts_ = Append(@, P.context_),
                 !.context_ = [c EXCEPT !.id = P.news], !.news = @ + 1]

\* Faulty variant of popContext: the saved context becomes the active one
\* but stays on the stack.
popContext_keep(P) ==
  IF ~Ok(P) \/ P.contexts_ = <<>> THEN P
  ELSE [P EXCEPT !.context_ = P.contexts_[Len(P.contexts_)]]

\* popContext(); contexts_.top() of an empty std::stack is undefined, which
\* ub records.
popContext(P) ==
  IF ~Ok(P) THEN P
  ELSE IF P.contexts_ = <<>> THEN [P EXCEPT !.ub = TRUE]
  ELSE [P EXCEPT !.context_ = P.contexts_[Len(P.contexts_)],
                 !.contexts_ = SubSeq(@, 1, Len(@) - 1)]

\* Faulty variant of PlistPairContext::write: the separator is written and
\* not counted, as PlistPairContext::read counts none.
PlistPairContext_write_uncounted(P) ==
  IF P.context_.first_
  THEN [P EXCEPT !.context_.first_ = FALSE, !.context_.colon_ = TRUE]
  ELSE [trans_write(P, <<IF P.context_.colon_ THEN kPlistPairSeparator
                                             ELSE kPlistElemSeparator>>)
          EXCEPT !.context_.colon_ = ~P.context_.colon_]

PlistPairContext_write(P) ==
  IF P.context_.first_
  THEN [P EXCEPT !.context_.first_ = FALSE, !.context_.colon_ = TRUE]
  ELSE Add([trans_write(P, <<IF P.context_.colon_ THEN kPlistPairSeparator
                                                 ELSE kPlistElemSeparator>>)
              EXCEPT !.context_.colon_ = ~P.context_.colon_], 1)

\* Faulty variant of PlistListContext::write: no separator is ever written.
PlistListContext_write_none(P) == [P EXCEPT !.context_.first_ = FALSE]

PlistListContext_write(P) ==
  IF P.context_.first_
  THEN [P EXCEPT !.context_.first_ = FALSE]
  ELSE Add(trans_write(P, <<kPlistElemSeparator>>), 1)

\* context_->write(*trans_): the virtual call on the active context; what
\* it returns is added to the result.
context_write(P) ==
  IF ~Ok(P) THEN P
  ELSE CASE P.context_.kind = "Pair" -> PlistPairContext_write(P)
         [] P.context_.kind = "List" -> PlistListContext_write(P)
         [] OTHER -> P

(***************************************************************************)
(* Token writer.                                                           *)
(***************************************************************************)
\* Faulty variant of writePlistEscapeChar: the character goes out as it is.
writePlistEscapeChar_raw(P, ch) == Add(trans_write(P, <<ch>>), 1)

writePlistEscapeChar(P, ch) ==
  CASE ch = "'" -> Add(trans_write(P, <<"&","a","p","o","s",";">>), 6)
    [] ch = "\"" -> Add(trans_write(P, <<"&","q","u","o","t",";">>), 6)
    [] ch = ">" -> Add(trans_write(P, <<"&","g","t",";">>), 4)
    [] ch = "<" -> Add(trans_write(P, <<"&","l","t",";">>), 4)
    [] ch = "&" -> Add(trans_write(P, <<"&","a","m","p",";">>), 5)
    [] OTHER -> P

InSeq(x, s) == \E i \in 1..Len(s) : s[i] = x

writePlistChar(P, ch) ==
  IF ~InSeq(ch, kEscapeChars)
  THEN Add(trans_write(P, <<ch>>), 1)
  ELSE writePlistEscapeChar(P, ch)

\* The while loop of writePlistKey: '_' goes out as '-', every character
\* through writePlistChar.
RECURSIVE writePlistKey_loop(_, _, _)
writePlistKey_loop(P, str, i) ==
  IF ~Ok(P) \/ i > Len(str) THEN P
  ELSE writePlistKey_loop(
         writePlistChar(P, IF str[i] = "_" THEN "-" ELSE str[i]), str, i + 1)

writePlistKey(P, str) ==
  trans_write(
    writePlistKey_loop(
      trans_write(Add(context_write(P), Len(kPlistKeyStart) + Len(kPlistKeyEnd)),
                  kPlistKeyStart),
      str, 1),
    kPlistKeyEnd)

RECURSIVE writePlistString_loop(_, _, _)
writePlistString_loop(P, str, i) ==
  IF ~Ok(P) \/ i > Len(str) THEN P
  ELSE writePlistString_loop(writePlistChar(P, str[i]), str, i + 1)

writePlistString(P, str) ==
  trans_write(
    writePlistString_loop(
      trans_write(Add(context_write(P),
                      Len(kPlistStringStart) + Len(kPlistStringEnd)),
                  kPlistStringStart),
      str, 1),
    kPlistStringEnd)

writePlistBool(P, b) ==
  IF b
  THEN Add(trans_write(context_write(P), kPlistStringTrue), Len(kPlistStringTrue))
  ELSE Add(trans_write(context_write(P), kPlistStringFalse), Len(kPlistStringFalse))

(***************************************************************************)
(* Base64 (TBase64Utils, which the codec includes and calls).  Payload     *)
(* bytes are numbers 0..255, Base64 characters are bytes of the wire.      *)
(***************************************************************************)
kBase64EncodeTable ==
  <<"A","B","C","D","E","F","G","H","I","J","K","L","M","N","O","P","Q","R",
    "S","T","U","V","W","X","Y","Z","a","b","c","d","e","f","g","h","i","j",
    "k","l","m","n","o","p","q","r","s","t","u","v","w","x","y","z","0","1",
    "2","3","4","5","6","7","8","9","+","/">>

\* The 6-bit value of a Base64 character; 255 for any other byte.
kBase64DecodeTable(ch) ==
  IF InSeq(ch, kBase64EncodeTable)
  THEN (CHOOSE i \in 1..64 : kBase64EncodeTable[i] = ch) - 1
  ELSE 255

\* base64_encode(in, len, buf): the 4 characters of buf; only the first
\* len + 1 carry bits of the input (the others are given as "A").
base64_encode(in, len) ==
  LET e(v) == kBase64EncodeTable[v + 1]
  IN CASE len = 3 ->
            <<e(in[1] \div 4), e((in[1] % 4) * 16 + in[2] \div 16),
              e((in[2] % 16) * 4 + in[3] \div 64), e(in[3] % 64)>>
       [] len = 2 ->
            <<e(in[1] \div 4), e((in[1] % 4) * 16 + in[2] \div 16),
              e((in[2] % 16) * 4), "A">>
       [] OTHER ->
            <<e(in[1] \div 4), e((in[1] % 4) * 16), "A", "A">>

\* base64_decode(buf, len): the len - 1 bytes decoded in place from the
\* first len characters of buf.
base64_decode(buf, len) ==
  LET d(i) == kBase64DecodeTable(buf[i])
      b0 == ((d(1) * 4) % 256) + (d(2) \div 16)
      b1 == ((d(2) % 16) * 16) + (d(3) \div 4)
      b2 == ((d(3) % 4) * 64) + d(4)
  IN CASE len > 3 -> <<b0, b1, b2 % 256>>
       [] len > 2 -> <<b0, b1>>
       [] OTHER -> <<b0>>

\* The while loop of writePlistBase64 over the bytes from position i on:
\* whole groups of three, then the remainder of one or two bytes.
RECURSIVE writePlistBase64_loop(_, _, _)
writePlistBase64_loop(P, str, i) ==
  IF ~Ok(P) THEN P
  ELSE IF Len(str) - i + 1 >= 3
  THEN writePlistBase64_loop(
         Add(trans_write(P, base64_encode(SubSeq(str, i, i + 2), 3)), 4),
         str, i + 3)
  ELSE IF Len(str) - i + 1 > 0
  THEN Add(trans_write(P, SubSeq(base64_encode(SubSeq(str, i, Len(str)),
                                               Len(str) - i + 1),
                                 1, Len(str) - i + 2)),
           Len(str) - i + 2)
  ELSE P

writePlistBase64(P, str) ==
  trans_write(
    writePlistBase64_loop(
      trans_write(Add(context_write(P),
                      Len(kPlistBinaryStart) + Len(kPlistBinaryEnd)),
                  kPlistBinaryStart),
      str, 1),
    kPlistBinaryEnd)

writePlistInteger(P, num, type) ==
  Add(trans_write(
        Add(trans_write(
              Add(trans_write(context_write(P), kPlistIntegerStart),
                  Len(kPlistIntegerStart)),
              lexical_cast_string(num, type)),
            Len(lexical_cast_string(num, type))),
        kPlistIntegerEnd),
      Len(kPlistIntegerEnd))

\* writePlistDouble after the conversion, val the text it gave: the switch
\* on val[0] and val[1], then the three writes.
writePlistDouble(P, val) ==
  LET norm ==
        CASE val[1] \in {"N", "n"} -> kThriftNan
          [] val[1] \in {"I", "i"} -> kThriftInfinity
          [] val[1] = "-" /\ Len(val) > 1 /\ val[2] \in {"I", "i"} ->
               kThriftNegativeInfinity
          [] OTHER -> val
  IN Add(trans_write(
           Add(trans_write(
                 Add(trans_write(context_write(P), kPlistRealStart),
                     Len(kPlistRealStart)),
                 norm),
               Len(norm)),
           kPlistRealEnd),
         Len(kPlistRealEnd))

writePlistObjectStart(P) ==
  Add(pushContext(trans_write(context_write(P), kPlistObjectStart), PlistPairContext),
      Len(kPlistObjectStart))

\* Faulty variant of the end of writePlistObjectEnd: </plist> is written
\* whatever the stack holds.
writePlistObjectEnd_plist_always(P) ==
  IF Ok(P) THEN Add(trans_write(P, kPlistPlistEnd), Len(kPlistPlistEnd)) ELSE P

\* if (contexts_.empty()) { trans_->write(kPlistPlistEnd); result += ... }
writePlistObjectEnd_plist(P) ==
  IF Ok(P) /\ P.contexts_ = <<>>
  THEN Add(trans_write(P, kPlistPlistEnd), Len(kPlistPlistEnd))
  ELSE P

\* Faulty variant of writePlistObjectEnd: the active context is not asked
\* for a separator.
writePlistObjectEnd_bare(P) ==
  writePlistObjectEnd_plist(
    Add(trans_write(popContext(P), kPlistObjectEnd), Len(kPlistObjectEnd)))

writePlistObjectEnd(P) ==
  writePlistObjectEnd_plist(
    Add(trans_write(popContext(context_write(P)), kPlistObjectEnd),
        Len(kPlistObjectEnd)))

writePlistArrayStart(P) ==
  pushContext(Add(trans_write(context_write(P), kPlistArrayStart), Len(kPlistArrayStart)),
       PlistListContext)

writePlistArrayEnd(P) ==
  Add(trans_write(popContext(P), kPlistArrayEnd), Len(kPlistArrayEnd))

\* The block of writeStructBegin that runs when contexts_ is empty.
writeStructBegin_header(P) ==
  Add(trans_write(
        Add(trans_write(context_write(P), kPlistHeader), Len(kPlistHeader)),
        kPlistPlistStart),
      Len(kPlistPlistStart))

(***************************************************************************)
(* Reading.  An exception is the field exc: once it is set, every later    *)
(* step of the call is skipped and the record is handed back as it is.     *)
(* A method's local variables and the variables the caller passes by       *)
(* reference are fields of the record; ret is the `result` of the facade   *)
(* call in progress, to which every callee adds what it returns.           *)
(***************************************************************************)
\* TTransport::readAll(buf, len) on the memory buffer: the next len bytes,
\* or, when fewer are left, those are taken and END_OF_FILE is thrown.
trans_readAll(P, len) ==
  IF Len(P.in) >= len
  THEN [P EXCEPT !.data = SubSeq(P.in, 1, len),
                 !.in = SubSeq(P.in, len + 1, Len(P.in))]
  ELSE [P EXCEPT !.in = <<>>, !.exc = "END_OF_FILE", !.short = TRUE]

\* buffer_.push_back(data) / the byte handed back by read() and peek()
reader_got(P, keep) ==
  IF ~Ok(P) THEN P
  ELSE [P EXCEPT !.ch = P.data[1],
                 !.buffer_ = IF keep THEN Append(@, P.data[1]) ELSE @]

\* LookaheadReader::read()
reader_read(P) ==
  IF ~Ok(P) THEN P
  ELSE IF Len(P.buffer_) > 0
  THEN [P EXCEPT !.ch = P.buffer_[1], !.buffer_ = Tail(P.buffer_)]
  ELSE reader_got(trans_readAll(P, 1), FALSE)

\* LookaheadReader::peek()
reader_peek(P) ==
  IF ~Ok(P) THEN P
  ELSE IF Len(P.buffer_) > 0
  THEN [P EXCEPT !.ch = P.buffer_[1]]
  ELSE reader_got(trans_readAll(P, 1), TRUE)

\* Faulty variant of the end of peek(size): the exception of a failed read
\* is let through.
reader_peeked_rethrow(P) ==
  IF Ok(P)
  THEN [P EXCEPT !.buffer_ = @ \o P.data, !.data = P.buffer_ \o P.data]
  ELSE P

\* The end of peek(size): the bytes read are appended and the buffer is
\* returned; catch (...) turns a failed read into the empty string.
reader_peeked(P) ==
  IF Ok(P)
  THEN [P EXCEPT !.buffer_ = @ \o P.data, !.data = P.buffer_ \o P.data]
  ELSE [P EXCEPT !.exc = "none", !.data = <<>>]

\* LookaheadReader::peek(size).  The block it reads into is taken to hold
\* the bytes read.
reader_peekN(P, size) ==
  IF ~Ok(P) THEN P
  ELSE IF Len(P.buffer_) >= size
  THEN [P EXCEPT !.data = SubSeq(P.buffer_, 1, size)]
  ELSE reader_peeked(trans_readAll(P, size - Len(P.buffer_)))

\* LookaheadReader::consume(size)
reader_consume(P, size) ==
  IF ~Ok(P) THEN P
  ELSE IF Len(P.buffer_) >= size
  THEN [P EXCEPT !.buffer_ = SubSeq(@, size + 1, Len(@))]
  ELSE trans_readAll([P EXCEPT !.buffer_ = <<>>], size - Len(P.buffer_))

\* Faulty variant of the whitespace test: a newline is not skipped.
IsSpace_blank(ch) == ch = kPlistSpace

IsSpace(ch) == ch = kPlistSpace \/ ch = kPlistNewline

\* The while loop of readSyntaxString, entered with ch2 in P.ch: each space
\* or newline is read and counted, and the next byte looked at.
RECURSIVE readSyntaxString_loop(_)
readSyntaxString_loop(P) ==
  IF ~Ok(P) \/ ~IsSpace(P.ch) THEN P
  ELSE readSyntaxString_loop(reader_peek(Add(reader_read(P), 1)))

\* Faulty variant of the comparison of readSyntaxString: whatever is there
\* is taken for the tag.
readSyntaxString_match_any(P, str) ==
  IF ~Ok(P) THEN P ELSE reader_consume(Add(P, Len(str)), Len(str))

\* The comparison of readSyntaxString, str2 in P.data.
readSyntaxString_match(P, str) ==
  IF ~Ok(P) THEN P
  ELSE IF P.data # str THEN Throw(P, "INVALID_DATA")
  ELSE reader_consume(Add(P, Len(str)), Len(str))

\* readPlistSyntaxString(str), which is readSyntaxString(reader_, str)
readPlistSyntaxString(P, str) ==
  readSyntaxString_match(
    reader_peekN(readSyntaxString_loop(reader_peek(P)), Len(str)), str)

PlistPairContext_read(P) ==
  IF P.context_.first_
  THEN [P EXCEPT !.context_.first_ = FALSE, !.context_.colon_ = TRUE]
  ELSE [P EXCEPT !.context_.colon_ = ~P.context_.colon_]

PlistListContext_read(P) ==
  IF P.context_.first_ THEN [P EXCEPT !.context_.first_ = FALSE] ELSE P

\* context_->read(reader_): the virtual call on the active context; every
\* implementation returns 0.
context_read(P) ==
  IF ~Ok(P) THEN P
  ELSE CASE P.context_.kind = "Pair" -> PlistPairContext_read(P)
         [] P.context_.kind = "List" -> PlistListContext_read(P)
         [] OTHER -> P

\* str.clear()
Clear(P) == IF Ok(P) THEN [P EXCEPT !.val = <<>>] ELSE P

\* std::string s = reader_.peek(n), kept as the local s4, s5 or s6.
Keep(P, n) ==
  IF ~Ok(P) THEN P
  ELSE CASE n = 4 -> [P EXCEPT !.s4 = P.data]
         [] n = 5 -> [P EXCEPT !.s5 = P.data]
         [] OTHER -> [P EXCEPT !.s6 = P.data]

\* while (escape--) { ++result; reader_.read(); }
RECURSIVE readPlistString_escape(_, _)
readPlistString_escape(P, escape) ==
  IF ~Ok(P) \/ escape = 0 THEN P
  ELSE readPlistString_escape(reader_read(Add(P, 1)), escape - 1)

\* The branch of readPlistString taken at a '&', after the three peeks.
readPlistString_entity(P) ==
  IF ~Ok(P) THEN P
  ELSE CASE P.s4 = <<"&","l","t",";">> ->
              readPlistString_escape([P EXCEPT !.val = Append(@, "<")], 4)
         [] P.s4 = <<"&","g","t",";">> ->
              readPlistString_escape([P EXCEPT !.val = Append(@, ">")], 4)
         [] P.s5 = <<"&","a","m","p",";">> ->
              readPlistString_escape([P EXCEPT !.val = Append(@, "&")], 5)
         [] P.s6 = <<"&","a","p","o","s",";">> ->
              readPlistString_escape([P EXCEPT !.val = Append(@, "'")], 6)
         [] P.s6 = <<"&","q","u","o","t",";">> ->
              readPlistString_escape([P EXCEPT !.val = Append(@, "\"")], 6)
         [] OTHER -> readPlistString_escape(P, 1)

\* The while (true) loop of readPlistString, entered with ch in P.ch.
RECURSIVE readPlistString_loop(_)
readPlistString_loop(P) ==
  IF ~Ok(P) \/ P.ch = kPlistOpenTag THEN P
  ELSE IF P.ch = "&"
  THEN readPlistString_loop(reader_peek(readPlistString_entity(
         Keep(reader_peekN(Keep(reader_peekN(Keep(reader_peekN(P, 4), 4), 5), 5),
                           6), 6))))
  ELSE readPlistString_loop(reader_peek(reader_read(
         Add([P EXCEPT !.val = Append(@, P.ch)], 1))))

readPlistString(P) ==
  readPlistSyntaxString(
    readPlistString_loop(reader_peek(Clear(
      readPlistSyntaxString(context_read(P), kPlistStringStart)))),
    kPlistStringEnd)

\* Faulty variant of the loop of readPlistKey: '-' is delivered as it is.
RECURSIVE readPlistKey_loop_verbatim(_)
readPlistKey_loop_verbatim(P) ==
  IF ~Ok(P) \/ P.ch = kPlistOpenTag THEN P
  ELSE readPlistKey_loop_verbatim(reader_peek(reader_read(
         Add([P EXCEPT !.val = Append(@, P.ch)], 1))))

\* Faulty variant of the loop of readPlistKey: the entities are translated
\* as readPlistString translates them.
RECURSIVE readPlistKey_loop_entities(_)
readPlistKey_loop_entities(P) ==
  IF ~Ok(P) \/ P.ch = kPlistOpenTag THEN P
  ELSE IF P.ch = "&"
  THEN readPlistKey_loop_entities(reader_peek(readPlistString_entity(
         Keep(reader_peekN(Keep(reader_peekN(Keep(reader_peekN(P, 4), 4), 5), 5),
                           6), 6))))
  ELSE readPlistKey_loop_entities(reader_peek(reader_read(
         Add([P EXCEPT !.val = Append(@, IF P.ch = "-" THEN "_" ELSE P.ch)], 1))))

\* The while (true) loop of readPlistKey: '-' is delivered as '_'.
RECURSIVE readPlistKey_loop(_)
readPlistKey_loop(P) ==
  IF ~Ok(P) \/ P.ch = kPlistOpenTag THEN P
  ELSE readPlistKey_loop(reader_peek(reader_read(
         Add([P EXCEPT !.val = Append(@, IF P.ch = "-" THEN "_" ELSE P.ch)], 1))))

readPlistKey(P) ==
  readPlistSyntaxString(
    readPlistKey_loop(reader_peek(Clear(
      readPlistSyntaxString(context_read(P), kPlistKeyStart)))),
    kPlistKeyEnd)

\* The while (true) loop of readPlistBinary: every byte up to '<', as it is.
RECURSIVE readPlistBinary_loop(_)
readPlistBinary_loop(P) ==
  IF ~Ok(P) \/ P.ch = kPlistOpenTag THEN P
  ELSE readPlistBinary_loop(reader_peek(reader_read(
         Add([P EXCEPT !.val = Append(@, P.ch)], 1))))

readPlistBinary(P) ==
  readPlistSyntaxString(
    readPlistBinary_loop(reader_peek(Clear(
      readPlistSyntaxString(context_read(P), kPlistBinaryStart)))),
    kPlistBinaryEnd)

\* Faulty variant of the decoding of readPlistBase64: a last group of two
\* or three characters is dropped.
RECURSIVE readPlistBase64_loop_whole(_, _)
readPlistBase64_loop_whole(tmp, i) ==
  IF Len(tmp) - i + 1 >= 4
  THEN base64_decode(SubSeq(tmp, i, i + 3), 4) \o readPlistBase64_loop_whole(tmp, i + 4)
  ELSE <<>>

\* The decoding of readPlistBase64 over the characters of tmp from
\* position i on: groups of four, then a last group of two or three.
RECURSIVE readPlistBase64_loop(_, _)
readPlistBase64_loop(tmp, i) ==
  IF Len(tmp) - i + 1 >= 4
  THEN base64_decode(SubSeq(tmp, i, i + 3), 4) \o readPlistBase64_loop(tmp, i + 4)
  ELSE IF Len(tmp) - i + 1 > 1
  THEN SubSeq(base64_decode(SubSeq(tmp, i, Len(tmp)), Len(tmp) - i + 1),
              1, Len(tmp) - i)
  ELSE <<>>

readPlistBase64_decode(P) ==
  IF ~Ok(P) THEN P ELSE [P EXCEPT !.val = readPlistBase64_loop(P.val, 1)]

readPlistBase64(P) == readPlistBase64_decode(readPlistBinary(P))

\* Return true if the character ch is in [-+0-9.Ee]
isPlistNumeric(ch) ==
  InSeq(ch, <<"+","-",".","0","1","2","3","4","5","6","7","8","9","E","e">>)

\* The while (true) loop of readPlistNumericChars, entered with ch in P.ch.
RECURSIVE readPlistNumericChars_loop(_)
readPlistNumericChars_loop(P) ==
  IF ~Ok(P) \/ ~isPlistNumeric(P.ch) THEN P
  ELSE readPlistNumericChars_loop(reader_peek(
         Add([reader_read(P) EXCEPT !.val = Append(@, P.ch)], 1)))

readPlistNumericChars(P) == readPlistNumericChars_loop(reader_peek(Clear(P)))

\* The value of the digit ch, 10 for any other character.
DigitVal(ch) ==
  IF InSeq(ch, DigitChars) THEN (CHOOSE i \in 1..10 : DigitChars[i] = ch) - 1
  ELSE 10

\* The sign that the text str starts with, "" when it starts with none.
Sign(str) == IF Len(str) > 0 /\ (str[1] = "-" \/ str[1] = "+") THEN str[1] ELSE ""

\* The digits of str from position i on, gathered below zero into acc; the
\* conversion fails on a character that is no digit and on a value under lim.
RECURSIVE lexical_cast_digits(_, _, _, _)
lexical_cast_digits(str, i, acc, lim) ==
  IF i > Len(str) THEN [ok |-> TRUE, v |-> acc]
  ELSE IF DigitVal(str[i]) = 10 \/ acc < (lim + DigitVal(str[i]) + 9) \div 10
  THEN [ok |-> FALSE, v |-> 0]
  ELSE lexical_cast_digits(str, i + 1, acc * 10 - DigitVal(str[i]), lim)

\* boost::lexical_cast<T>(str) for int16_t and int32_t: an optional sign,
\* then one digit or more and nothing else, the value within the type's
\* range; ok is FALSE where it throws bad_lexical_cast.
lexical_cast_int(str, type) ==
  IF Len(str) = 0 \/ (Sign(str) # "" /\ Len(str) = 1) THEN [ok |-> FALSE, v |-> 0]
  ELSE IF Sign(str) = "-"
  THEN lexical_cast_digits(str, 2, 0, IntMin(type))
  ELSE LET r == lexical_cast_digits(str, IF Sign(str) = "" THEN 1 ELSE 2, 0,
                                    0 - IntMax(type))
       IN [ok |-> r.ok, v |-> 0 - r.v]

\* The digits of str from position i on, gathered into the limbs m; the
\* conversion fails on a character that is no digit and on a value that
\* leaves 64 bits.
RECURSIVE lexical_cast_digits64(_, _, _)
lexical_cast_digits64(str, i, m) ==
  IF i > Len(str) THEN [ok |-> TRUE, v |-> m]
  ELSE IF DigitVal(str[i]) = 10 \/ Mul10Add(m, DigitVal(str[i])).over
  THEN [ok |-> FALSE, v |-> Zero64]
  ELSE lexical_cast_digits64(str, i + 1, Mul10Add(m, DigitVal(str[i])).m)

\* The magnitude that the text str gives: an optional sign, then one
\* digit or more and nothing else.
lexical_cast_magnitude(str) ==
  IF Len(str) = 0 \/ (Sign(str) # "" /\ Len(str) = 1) THEN [ok |-> FALSE, v |-> Zero64]
  ELSE lexical_cast_digits64(str, IF Sign(str) = "" THEN 1 ELSE 2, Zero64)

\* boost::lexical_cast<int64_t>(str): the magnitude is at most 2^63 - 1,
\* or 2^63 after a '-'.
lexical_cast_int64(str) ==
  LET r == lexical_cast_magnitude(str)
      top == IF Sign(str) = "-" /\ Tail(r.v) = <<0, 0, 0>> THEN 32768 ELSE 32767
  IN IF ~r.ok \/ r.v[1] > top THEN [ok |-> FALSE, v |-> Int64(FALSE, 0, 0, 0, 0)]
     ELSE [ok |-> TRUE, v |-> [neg |-> Sign(str) = "-" /\ r.v # Zero64, m |-> r.v]]

\* boost::lexical_cast<uint64_t>(str): a '-' negates modulo 2^64.
lexical_cast_uint64(str) ==
  LET r == lexical_cast_magnitude(str)
  IN IF ~r.ok THEN r
     ELSE [ok |-> TRUE, v |-> IF Sign(str) = "-" THEN Neg64(r.v) ELSE r.v]

\* boost::lexical_cast<NumberType>(str) for the type named.
lexical_cast(str, type) ==
  CASE type = "int64_t" -> lexical_cast_int64(str)
    [] type = "uint64_t" -> lexical_cast_uint64(str)
    [] OTHER -> lexical_cast_int(str, type)

\* The try block of readPlistInteger; the handler throws a pointer to a
\* new TProtocolException.
readPlistInteger_cast(P, type) ==
  IF ~Ok(P) THEN P
  ELSE IF ~lexical_cast(P.val, type).ok THEN Throw(P, "new INVALID_DATA")
  ELSE [P EXCEPT !.val = lexical_cast(P.val, type).v]

readPlistInteger(P, type) ==
  readPlistSyntaxString(
    readPlistInteger_cast(
      readPlistNumericChars(
        readPlistSyntaxString(context_read(P), kPlistIntegerStart)),
      type),
    kPlistIntegerEnd)

\* The while (true) loop of readPlistDouble: every byte up to '<', as it is.
RECURSIVE readPlistDouble_loop(_)
readPlistDouble_loop(P) ==
  IF ~Ok(P) \/ P.ch = kPlistOpenTag THEN P
  ELSE readPlistDouble_loop(reader_peek(reader_read(
         Add([P EXCEPT !.val = Append(@, P.ch)], 1))))

\* boost::lexical_cast<double>(str): the text of a whole number gives that
\* number; "nan" and "inf", with a sign or without, give the value where
\* the host conversion knows them (lib) and fail elsewhere; a fraction or
\* an exponent is not modelled, the doubles of this model being whole.
lexical_cast_double(str, lib) ==
  LET neg == Sign(str) = "-"
      body == IF Sign(str) = "" THEN str ELSE Tail(str)
  IN IF body = <<"n","a","n">>
     THEN [ok |-> lib, v |-> Double("nan", neg, 0)]
     ELSE IF body = <<"i","n","f">>
     THEN [ok |-> lib, v |-> Double("inf", neg, 0)]
     ELSE IF Len(body) > 0 /\ Len(body) < 10 /\ \A i \in 1..Len(body) : DigitVal(body[i]) < 10
     THEN [ok |-> TRUE, v |-> Double("fin", neg, lexical_cast_int(body, "int32_t").v)]
     ELSE [ok |-> FALSE, v |-> Double("fin", FALSE, 0)]

\* The comparisons of readPlistDouble with the reserved texts and its try
\* block, str in P.val.  HUGE_VAL/HUGE_VAL is a NaN whose sign bit (nan)
\* the build decides; the handler throws a pointer to a new
\* TProtocolException.
readPlistDouble_cast(P, nan, lib) ==
  IF ~Ok(P) THEN P
  ELSE IF P.val = kThriftNan THEN [P EXCEPT !.val = Double("nan", nan, 0)]
  ELSE IF P.val = kThriftInfinity THEN [P EXCEPT !.val = Double("inf", FALSE, 0)]
  ELSE IF P.val = kThriftNegativeInfinity THEN [P EXCEPT !.val = Double("inf", TRUE, 0)]
  ELSE IF ~lexical_cast_double(P.val, lib).ok THEN Throw(P, "new INVALID_DATA")
  ELSE [P EXCEPT !.val = lexical_cast_double(P.val, lib).v]

readPlistDouble(P, nan, lib) ==
  readPlistSyntaxString(
    readPlistDouble_cast(
      readPlistDouble_loop(reader_peek(Clear(
        readPlistSyntaxString(context_read(P), kPlistRealStart)))),
      nan, lib),
    kPlistRealEnd)

\* The while (true) loop of readPlistBool: bytes are read up to '>', spaces
\* and newlines dropped; every byte read is counted.
RECURSIVE readPlistBool_loop(_)
readPlistBool_step(P) ==
  IF ~Ok(P) THEN P
  ELSE IF IsSpace(P.ch) THEN readPlistBool_loop(P)
  ELSE IF P.ch = kPlistCloseTag THEN [P EXCEPT !.val = Append(@, P.ch)]
  ELSE readPlistBool_loop([P EXCEPT !.val = Append(@, P.ch)])

readPlistBool_loop(P) == readPlistBool_step(Add(reader_read(P), 1))

\* Faulty variant of the comparison of readPlistBool: whatever is not
\* <true/> is false.
readPlistBool_match_lax(P) ==
  IF ~Ok(P) THEN P
  ELSE IF P.val = kPlistStringTrue THEN [P EXCEPT !.val = TRUE]
  ELSE [P EXCEPT !.val = FALSE]

\* The comparison of readPlistBool, str in P.val.
readPlistBool_match(P) ==
  IF ~Ok(P) THEN P
  ELSE IF P.val = kPlistStringTrue THEN [P EXCEPT !.val = TRUE]
  ELSE IF P.val = kPlistStringFalse THEN [P EXCEPT !.val = FALSE]
  ELSE Throw(P, "INVALID_DATA")

readPlistBool(P) == readPlistBool_match(readPlistBool_loop(Clear(context_read(P))))

\* Faulty variant of readPlistObjectStart: the context is pushed before the
\* tag is read.
readPlistObjectStart_early(P) ==
  readPlistSyntaxString(pushContext(context_read(P), PlistPairContext),
                        kPlistObjectStart)

readPlistObjectStart(P) ==
  pushContext(readPlistSyntaxString(context_read(P), kPlistObjectStart), PlistPairContext)

\* Faulty variant of the end of readPlistObjectEnd: </plist> is left unread.
readPlistObjectEnd_plist_never(P) == P

\* if (contexts_.empty()) result += readPlistSyntaxString(kPlistPlistEnd);
readPlistObjectEnd_plist(P) ==
  IF Ok(P) /\ P.contexts_ = <<>> THEN readPlistSyntaxString(P, kPlistPlistEnd)
  ELSE P

readPlistObjectEnd(P) ==
  readPlistObjectEnd_plist(popContext(readPlistSyntaxString(P, kPlistObjectEnd)))

readPlistArrayStart(P) ==
  pushContext(readPlistSyntaxString(context_read(P), kPlistArrayStart), PlistListContext)

\* Faulty variant of readPlistArrayEnd: the list context stays active.
readPlistArrayEnd_nopop(P) == readPlistSyntaxString(P, kPlistArrayEnd)

readPlistArrayEnd(P) == popContext(readPlistSyntaxString(P, kPlistArrayEnd))

(***************************************************************************)
(* Helpers of the read calls of the facade.                                *)
(***************************************************************************)
\* Faulty variant of the version test: only the low 32 bits are compared.
readMessageBegin_version_low(P) ==
  IF ~Ok(P) THEN P
  ELSE IF Low32(P.val) # kThriftVersion1 THEN Throw(P, "BAD_VERSION")
  ELSE P

\* if (tmpVal != kThriftVersion1) throw BAD_VERSION
readMessageBegin_version(P) ==
  IF ~Ok(P) THEN P
  ELSE IF P.val # <<0, 0, 0, kThriftVersion1>> THEN Throw(P, "BAD_VERSION")
  ELSE P

\* Faulty variant of the assignments: the two numbers change places.
readMessageBegin_set_swapped(P, what) ==
  IF ~Ok(P) THEN P
  ELSE CASE what = "name" -> [P EXCEPT !.name = P.val]
         [] what = "messageType" -> [P EXCEPT !.seqid = Low32(P.val)]
         [] OTHER -> [P EXCEPT !.messageType = Low32(P.val)]

\* The assignments of readMessageBegin to name, messageType and seqid.
readMessageBegin_set(P, what) ==
  IF ~Ok(P) THEN P
  ELSE CASE what = "name" -> [P EXCEPT !.name = P.val]
         [] what = "messageType" -> [P EXCEPT !.messageType = Low32(P.val)]
         [] OTHER -> [P EXCEPT !.seqid = Low32(P.val)]

\* The position of the first '>' in s, 0 when it has none.
FirstClose(s) ==
  IF \E i \in 1..Len(s) : s[i] = kPlistCloseTag
  THEN CHOOSE i \in 1..Len(s) :
         s[i] = kPlistCloseTag /\ \A j \in 1..(i - 1) : s[j] # kPlistCloseTag
  ELSE 0

\* while ((ch = reader_.read()) != kPlistCloseTag) result++;
\* Every byte up to and including the first '>' is read, from the buffer
\* and then from the transport, and every byte before it counted; without
\* a '>' all bytes are read and the read after the last one throws.
readStructBegin_skip(P) ==
  IF ~Ok(P) THEN P
  ELSE LET k == FirstClose(P.buffer_ \o P.in)
           nb == Len(P.buffer_)
       IN IF k = 0
          THEN [P EXCEPT !.buffer_ = <<>>, !.in = <<>>, !.exc = "END_OF_FILE",
                         !.short = TRUE, !.ret = @ + nb + Len(P.in)]
          ELSE [P EXCEPT !.ch = kPlistCloseTag,
                         !.buffer_ = SubSeq(@, k + 1, nb),
                         !.in = IF k > nb THEN SubSeq(@, k - nb + 1, Len(@)) ELSE @,
                         !.ret = @ + k - 1]

\* The while (true) loop of readFieldBegin, entered with ch in P.ch.
RECURSIVE readFieldBegin_loop(_)
readFieldBegin_loop(P) ==
  IF ~Ok(P) \/ ~IsSpace(P.ch) THEN P
  ELSE readFieldBegin_loop(reader_peek(Add(reader_read(P), 1)))

\* Faulty variant of the if of readFieldBegin: the end tag is consumed.
readFieldBegin_test_consume(P) ==
  IF ~Ok(P) THEN P
  ELSE IF P.data = kPlistObjectEnd
  THEN reader_consume([P EXCEPT !.fieldType = "T_STOP"], Len(kPlistObjectEnd))
  ELSE LET Q == readPlistKey(P)
       IN IF ~Ok(Q) THEN Q ELSE [Q EXCEPT !.name = Q.val, !.fieldId = -1]

\* The if of readFieldBegin, str in P.data; name and fieldId are assigned
\* only where a key is read.
readFieldBegin_test(P) ==
  IF ~Ok(P) THEN P
  ELSE IF P.data = kPlistObjectEnd THEN [P EXCEPT !.fieldType = "T_STOP"]
  ELSE LET Q == readPlistKey(P)
       IN IF ~Ok(Q) THEN Q ELSE [Q EXCEPT !.name = Q.val, !.fieldId = -1]

readFieldBegin(P) ==
  readFieldBegin_test(
    reader_peekN(
      readFieldBegin_loop(reader_peek([Enter(P) EXCEPT !.fieldType = "T_VOID"])),
      Len(kPlistObjectEnd)))

\* (uint32_t)x: x modulo 2^32, as its high and low 16 bits.
CastUint32(x) == <<((x - (x % 65536)) \div 65536) % 65536, x % 65536>>

\* Faulty variant of SetSize: the caller is told the container is empty.
SetSize_zero(P) == IF Ok(P) THEN [P EXCEPT !.size = CastUint32(0)] ELSE P

\* size = (uint32_t)-1
SetSize(P) == IF Ok(P) THEN [P EXCEPT !.size = CastUint32(-1)] ELSE P

\* Faulty variant of readByte: the assertion is on the range of a signed
\* byte.
readByte_narrow_signed(P) ==
  IF ~Ok(P) THEN P
  ELSE IF ~(P.val < 128) THEN Throw(P, "ASSERTION")
  ELSE [P EXCEPT !.val = CastInt8(P.val)]

\* assert(tmp < 256); byte = (int8_t)tmp; the assertion is taken as
\* compiled in.
readByte_narrow(P) ==
  IF ~Ok(P) THEN P
  ELSE IF ~(P.val < 256) THEN Throw(P, "ASSERTION")
  ELSE [P EXCEPT !.val = CastInt8(P.val)]

(***************************************************************************)
(* The caller.  It drives one codec through a well-nested sequence of      *)
(* write calls (the order generated struct code uses), hands the bytes to  *)
(* a second codec and mirrors every write call by its read call.  Each     *)
(* action is one call of the facade, the method's body included.           *)
(***************************************************************************)
MaxVals == 3
MaxDepth == 2

BoolVals == {TRUE, FALSE}
ByteVals == {-128}
I16Vals == {32767}
I32Vals == {Int32Min}
I64Vals == {Int64(FALSE, 0, 0, 0, 1732)}
StringVals == {<<"a", "<", "&">>}
BinaryVals == {<<104, 105>>}
FieldNames == {<<"f", "_", "1">>}
MessageVals == {[name |-> <<"m">>, messageType |-> 1, seqid |-> -5]}

Top == open[Len(open)]

\* A container the caller has just begun, n the number of tokens its
\* innermost plist container holds (the array of a message starts with the
\* four of the envelope).
Frame(c) ==
  [c |-> c, n |-> IF c = "message" THEN 4 ELSE 0,
   s |-> IF c = "struct" THEN "key" ELSE "any"]

\* The innermost open container has received k more values and, where it
\* is a struct, expects st next.
Turn(o, k, st) ==
  IF o = <<>> THEN o
  ELSE LET t == o[Len(o)]
       IN [o EXCEPT ![Len(o)] = [c |-> t.c, n |-> t.n + k,
                                 s |-> IF t.c = "struct" THEN st ELSE t.s]]

CanValue ==
  /\ phase = "write"
  /\ budget > 0
  /\ IF open = <<>> THEN TRUE ELSE Top.c # "struct" \/ Top.s = "val"

CanEnd(c) ==
  /\ phase = "write"
  /\ open # <<>>
  /\ Top.c = c
  /\ c = "struct" => Top.s = "stop"
  /\ c = "map" => Top.n % 2 = 0

\* The context objects of P, the saved ones from the bottom of the stack
\* and then the active one.
Ids(P) ==
  [k \in 1..(Len(P.contexts_) + 1) |-> (P.contexts_ \o <<P.context_>>)[k].id]

\* One write call: the codec state after it, the call logged with the
\* output length, the stack depth and the context objects before it, the
\* container the caller is in and whether a token came before this one in
\* that container.
Call(op, arg, P, o) ==
  /\ wr' = P
  /\ calls' = Append(calls, [op |-> op, arg |-> arg, at |-> Len(wr.out),
                             d |-> Len(wr.contexts_), ctx |-> Ids(wr),
                             c |-> IF open = <<>> THEN "" ELSE Top.c,
                             sib |-> open # <<>> /\ Top.n > 0])
  /\ open' = o
  /\ UNCHANGED <<rd, wire, phase, rix, edits>>

Value(op, arg, P) ==
  CanValue /\ Call(op, arg, P, Turn(open, 1, "fend")) /\ budget' = budget - 1

Begin(op, arg, P, c) ==
  /\ CanValue /\ Len(open) < MaxDepth
  /\ Call(op, arg, P, Append(Turn(open, 1, "fend"), Frame(c)))
  /\ budget' = budget - 1

End(op, P, c) ==
  CanEnd(c) /\ Call(op, <<>>, P, SubSeq(open, 1, Len(open) - 1)) /\ UNCHANGED budget

\* A field call of a struct in state s, which it leaves in state st.
Field(op, arg, P, s, k, st) ==
  /\ phase = "write"
  /\ open # <<>> /\ Top.c = "struct" /\ Top.s = s
  /\ Call(op, arg, P, Turn(open, k, st))
  /\ UNCHANGED budget

WriteMessageBegin(m) ==
  Begin("writeMessageBegin", m,
        LET P1 == writePlistArrayStart(Enter(wr))
            P2 == writePlistInteger(P1, kThriftVersion1, "uint32_t")
            P3 == writePlistString(P2, m.name)
            P4 == writePlistInteger(P3, m.messageType, "TMessageType")
        IN IF ~Ok(P1) THEN P1
           ELSE IF ~Ok(P2) THEN P2
           ELSE IF ~Ok(P3) THEN P3
           ELSE IF ~Ok(P4) THEN P4
           ELSE writePlistInteger(P4, m.seqid, "int32_t"),
        "message")

WriteMessageEnd == End("writeMessageEnd", writePlistArrayEnd(Enter(wr)), "message")

WriteStructBegin ==
  Begin("writeStructBegin", <<>>,
        IF wr.contexts_ = <<>>
        THEN writePlistObjectStart(writeStructBegin_header(Enter(wr)))
        ELSE writePlistObjectStart(Enter(wr)),
        "struct")

WriteStructEnd == End("writeStructEnd", writePlistObjectEnd(Enter(wr)), "struct")

FieldTypeVals == {"T_BOOL", "T_STRUCT"}
FieldIdVals == {1, 32767}

\* Faulty variant of writeFieldBegin: the name of the type follows the key.
writeFieldBegin_typed(P, name, fieldType, fieldId) ==
  writePlistString(writePlistKey(P, name), <<"t">>)

\* writeFieldBegin(name, fieldType, fieldId)
writeFieldBegin(P, name, fieldType, fieldId) == writePlistKey(P, name)

\* A field is begun only while the caller still has a value to write.
WriteFieldBegin(name) ==
  /\ budget > 0
  /\ \E fieldType \in FieldTypeVals, fieldId \in FieldIdVals :
       Field("writeFieldBegin", name,
             writeFieldBegin(Enter(wr), name, fieldType, fieldId), "key", 1, "val")

WriteFieldEnd == Field("writeFieldEnd", <<>>, Enter(wr), "fend", 0, "key")

WriteFieldStop == Field("writeFieldStop", <<>>, Enter(wr), "key", 0, "stop")

WriteMapBegin ==
  Begin("writeMapBegin", <<>>,
        writePlistObjectStart(writePlistArrayStart(Enter(wr))), "map")

\* Faulty variant of writeMapEnd: the array is ended before the dict.
WriteMapEnd_swapped ==
  End("writeMapEnd", writePlistObjectEnd(writePlistArrayEnd(Enter(wr))), "map")

\* writePlistObjectEnd() + writePlistArrayEnd(): the operands are taken in
\* the order written, as the compilers the library is built with do.
WriteMapEnd ==
  End("writeMapEnd", writePlistArrayEnd(writePlistObjectEnd(Enter(wr))), "map")

WriteListBegin == Begin("writeListBegin", <<>>, writePlistArrayStart(Enter(wr)), "list")

WriteListEnd == End("writeListEnd", writePlistArrayEnd(Enter(wr)), "list")

WriteSetBegin == Begin("writeSetBegin", <<>>, writePlistArrayStart(Enter(wr)), "set")

WriteSetEnd == End("writeSetEnd", writePlistArrayEnd(Enter(wr)), "set")

WriteBool(v) == Value("writeBool", v, writePlistBool(Enter(wr), v))

\* writePlistInteger((int16_t)byte)
WriteByte(v) ==
  Value("writeByte", v, writePlistInteger(Enter(wr), CastInt16(v), "int16_t"))

WriteI16(v) == Value("writeI16", v, writePlistInteger(Enter(wr), v, "int16_t"))

WriteI32(v) == Value("writeI32", v, writePlistInteger(Enter(wr), v, "int32_t"))

WriteI64(v) == Value("writeI64", v, writePlistInteger(Enter(wr), v, "int64_t"))

\* std::string val(boost::lexical_cast<std::string>(num)), then the rest
\* of writePlistDouble.
WriteDouble(v) ==
  \E val \in lexical_cast_string_double(v) :
    Value("writeDouble", v, writePlistDouble(Enter(wr), val))

WriteString(v) == Value("writeString", v, writePlistString(Enter(wr), v))

WriteBinary(v) == Value("writeBinary", v, writePlistBase64(Enter(wr), v))

\* The caller has ended every container: the buffer's bytes go on the wire.
Finish ==
  /\ phase = "write" /\ open = <<>> /\ calls # <<>>
  /\ phase' = "wire"
  /\ wire' = wr.out
  /\ UNCHANGED <<wr, rd, calls, open, rix, budget, edits>>

\* A codec is constructed over a memory buffer that holds the wire's bytes.
StartRead ==
  /\ phase = "wire"
  /\ phase' = "read"
  /\ rd' = NewProtocol(wire)
  /\ UNCHANGED <<wr, wire, calls, open, rix, budget, edits>>

\* One read call, the mirror of the next write call not yet mirrored.
Mirror(ops, P) ==
  /\ phase = "read" /\ Ok(rd) /\ rix < Len(calls)
  /\ calls[rix + 1].op \in ops
  /\ rd' = P
  /\ rix' = rix + 1
  /\ phase' = IF rix + 1 = Len(calls) /\ Ok(P) THEN "done" ELSE "read"
  /\ UNCHANGED <<wr, wire, calls, open, budget, edits>>

ReadMessageBegin ==
  Mirror({"writeMessageBegin"},
         LET P1 == readPlistArrayStart(Enter(rd))
             P2 == readMessageBegin_version(readPlistInteger(P1, "uint64_t"))
             P3 == readMessageBegin_set(readPlistString(P2), "name")
             P4 == readMessageBegin_set(readPlistInteger(P3, "uint64_t"),
                                        "messageType")
         IN IF ~Ok(P1) THEN P1
            ELSE IF ~Ok(P2) THEN P2
            ELSE IF ~Ok(P3) THEN P3
            ELSE IF ~Ok(P4) THEN P4
            ELSE readMessageBegin_set(readPlistInteger(P4, "uint64_t"), "seqid"))

ReadMessageEnd == Mirror({"writeMessageEnd"}, readPlistArrayEnd(Enter(rd)))

\* Faulty variant of readStructBegin: the three tags are skipped whatever
\* the stack holds.
ReadStructBegin_always ==
  Mirror({"writeStructBegin"},
         readPlistObjectStart(
           readStructBegin_skip(
             readStructBegin_skip(readStructBegin_skip(Enter(rd))))))

\* Faulty variant of readStructBegin: two tags are skipped, not three.
ReadStructBegin_two ==
  Mirror({"writeStructBegin"},
         IF rd.contexts_ = <<>>
         THEN readPlistObjectStart(
                readStructBegin_skip(readStructBegin_skip(Enter(rd))))
         ELSE readPlistObjectStart(Enter(rd)))

ReadStructBegin ==
  Mirror({"writeStructBegin"},
         IF rd.contexts_ = <<>>
         THEN readPlistObjectStart(
                readStructBegin_skip(
                  readStructBegin_skip(readStructBegin_skip(Enter(rd)))))
         ELSE readPlistObjectStart(Enter(rd)))

ReadStructEnd == Mirror({"writeStructEnd"}, readPlistObjectEnd(Enter(rd)))

ReadFieldBegin == Mirror({"writeFieldBegin", "writeFieldStop"}, readFieldBegin(rd))

ReadFieldEnd == Mirror({"writeFieldEnd"}, Enter(rd))

ReadMapBegin ==
  Mirror({"writeMapBegin"},
         SetSize(readPlistObjectStart(readPlistArrayStart(Enter(rd)))))

\* readPlistObjectEnd() + readPlistArrayEnd(): the operands are taken in
\* the order written, as the compilers the library is built with do.
ReadMapEnd ==
  Mirror({"writeMapEnd"}, readPlistArrayEnd(readPlistObjectEnd(Enter(rd))))

ReadListBegin == Mirror({"writeListBegin"}, SetSize(readPlistArrayStart(Enter(rd))))

ReadListEnd == Mirror({"writeListEnd"}, readPlistArrayEnd(Enter(rd)))

ReadSetBegin == Mirror({"writeSetBegin"}, SetSize(readPlistArrayStart(Enter(rd))))

ReadSetEnd == Mirror({"writeSetEnd"}, readPlistArrayEnd(Enter(rd)))

ReadBool == Mirror({"writeBool"}, readPlistBool(Enter(rd)))

ReadByte ==
  Mirror({"writeByte"}, readByte_narrow(readPlistInteger(Enter(rd), "int16_t")))

ReadI16 == Mirror({"writeI16"}, readPlistInteger(Enter(rd), "int16_t"))

ReadI32 == Mirror({"writeI32"}, readPlistInteger(Enter(rd), "int32_t"))

ReadI64 == Mirror({"writeI64"}, readPlistInteger(Enter(rd), "int64_t"))

ReadDouble ==
  \E nan \in BOOLEAN, lib \in BOOLEAN :
    Mirror({"writeDouble"}, readPlistDouble(Enter(rd), nan, lib))

ReadString == Mirror({"writeString"}, readPlistString(Enter(rd)))

ReadBinary == Mirror({"writeBinary"}, readPlistBase64(Enter(rd)))

\* Two codecs just constructed and a caller that will write n values.
Start(n) ==
  /\ wr = NewProtocol(<<>>)
  /\ rd = NewProtocol(<<>>)
  /\ wire = <<>>
  /\ calls = <<>>
  /\ open = <<>>
  /\ phase = "write"
  /\ rix = 0
  /\ budget = n
  /\ edits = 0

Init == Start(MaxVals)

WriteContainer ==
  \/ \E m \in MessageVals : WriteMessageBegin(m)
  \/ WriteMessageEnd
  \/ WriteStructBegin
  \/ WriteStructEnd
  \/ \E name \in FieldNames : WriteFieldBegin(name)
  \/ WriteFieldEnd
  \/ WriteFieldStop
  \/ WriteMapBegin
  \/ WriteMapEnd
  \/ WriteListBegin
  \/ WriteListEnd
  \/ WriteSetBegin
  \/ WriteSetEnd

WriteScalar ==
  \/ \E v \in BoolVals : WriteBool(v)
  \/ \E v \in ByteVals : WriteByte(v)
  \/ \E v \in I16Vals : WriteI16(v)
  \/ \E v \in I32Vals : WriteI32(v)
  \/ \E v \in I64Vals : WriteI64(v)
  \/ \E v \in StringVals : WriteString(v)
  \/ \E v \in BinaryVals : WriteBinary(v)

Read ==
  \/ ReadMessageBegin \/ ReadMessageEnd
  \/ ReadStructBegin \/ ReadStructEnd
  \/ ReadFieldBegin \/ ReadFieldEnd
  \/ ReadMapBegin \/ ReadMapEnd
  \/ ReadListBegin \/ ReadListEnd
  \/ ReadSetBegin \/ ReadSetEnd
  \/ ReadBool \/ ReadByte \/ ReadI16 \/ ReadI32 \/ ReadI64
  \/ ReadString \/ ReadBinary

Next == WriteContainer \/ WriteScalar \/ Finish \/ StartRead \/ Read

Spec == Init /\ [][Next]_vars

(***************************************************************************)
(* Specifications of one value each, over larger sets of values.           *)
(***************************************************************************)
\* The sequences over A of length n at most.
Strings(A, n) == UNION {[1..k -> A] : k \in 0..n}

MaxStrLen == 4
StrAlphabet == {"a", ";", "&", "<", ">", "\"", "'"}
EntityLike ==
  {<<"&","l","t",";">>, <<"&","g","t",";">>, <<"&","a","m","p",";">>,
   <<"&","a","p","o","s",";">>, <<"&","q","u","o","t",";">>,
   <<"&","a","m","p",";","l","t",";">>, <<"a","&","l","t",";","&","<","x">>}
StrDomain == Strings(StrAlphabet, MaxStrLen) \cup EntityLike

NextStr ==
  \/ \E v \in StrDomain : WriteString(v)
  \/ Finish
  \/ StartRead
  \/ ReadString

SpecStr == Start(1) /\ [][NextStr]_vars

MaxKeyLen == 4
KeyAlphabet == {"a", "1", "_", "-"}
KeyDomain == Strings(KeyAlphabet, MaxKeyLen)

\* The caller asks for a field once more after the stop was reported.
ReadFieldBeginAgain ==
  /\ phase = "read" /\ Ok(rd) /\ rix > 0
  /\ calls[rix].op = "writeFieldStop"
  /\ rd' = readFieldBegin(rd)
  /\ UNCHANGED <<wr, wire, calls, open, phase, rix, budget, edits>>

NextKey ==
  \/ WriteStructBegin
  \/ \E name \in KeyDomain : WriteFieldBegin(name)
  \/ \E v \in BoolVals : WriteBool(v)
  \/ WriteFieldEnd
  \/ WriteFieldStop
  \/ WriteStructEnd
  \/ Finish
  \/ StartRead
  \/ ReadStructBegin
  \/ ReadFieldBegin
  \/ ReadFieldBeginAgain
  \/ ReadBool
  \/ ReadFieldEnd
  \/ ReadStructEnd

SpecKey == Start(2) /\ [][NextKey]_vars

ByteDomain == -128..127
I16Domain == -32768..32767
I32Domain ==
  {Int32Min, Int32Min + 1, -1000000000, -32769, -129, -10, -1, 0, 1, 9, 10, 99,
   128, 32768, 999999999, 1000000000, Int32Max - 1, Int32Max}
I64Domain ==
  {Int64(TRUE, 32768, 0, 0, 0), Int64(TRUE, 32767, 65535, 65535, 65535),
   Int64(TRUE, 0, 0, 32768, 1), Int64(TRUE, 0, 0, 0, 1), Int64(FALSE, 0, 0, 0, 0),
   Int64(FALSE, 0, 0, 0, 10), Int64(FALSE, 0, 0, 32768, 0), Int64(FALSE, 0, 1, 0, 0),
   Int64(FALSE, 3567, 23869, 56562, 62194),
   Int64(FALSE, 32767, 65535, 65535, 65534), Int64(FALSE, 32767, 65535, 65535, 65535)}

NextInt ==
  \/ CanValue /\ \E v \in ByteDomain : WriteByte(v)
  \/ CanValue /\ \E v \in I16Domain : WriteI16(v)
  \/ CanValue /\ \E v \in I32Domain : WriteI32(v)
  \/ CanValue /\ \E v \in I64Domain : WriteI64(v)
  \/ Finish
  \/ StartRead
  \/ ReadByte
  \/ ReadI16
  \/ ReadI32
  \/ ReadI64

SpecInt == Start(1) /\ [][NextInt]_vars

MaxBinLen == 4
BinAlphabet == {0, 104, 251, 255}
BinDomain == Strings(BinAlphabet, MaxBinLen)

\* A document whose Base64 text, a whole number of groups of four, is
\* followed by one more character c.
AppendStray(c) ==
  /\ phase = "wire" /\ edits = 0
  /\ (Len(wire) - Len(kPlistBinaryStart) - Len(kPlistBinaryEnd)) % 4 = 0
  /\ wire' = SubSeq(wire, 1, Len(wire) - Len(kPlistBinaryEnd)) \o <<c>>
                \o kPlistBinaryEnd
  /\ edits' = 1
  /\ UNCHANGED <<wr, rd, calls, open, phase, rix, budget>>

NextBin ==
  \/ \E v \in BinDomain : WriteBinary(v)
  \/ Finish
  \/ \E c \in {"A", "/"} : AppendStray(c)
  \/ StartRead
  \/ ReadBinary

SpecBin == Start(1) /\ [][NextBin]_vars

(***************************************************************************)
(* A specification in which the document is rewritten between the writer   *)
(* and the reader: the bytes between two adjacent tokens are replaced by   *)
(* a run of spaces and newlines.                                           *)
(***************************************************************************)
MaxRun == 2
WsVals == 2

Runs == Strings({kPlistSpace, kPlistNewline}, MaxRun)

\* A token starts at position p of the document w: a '<' that does not
\* close the text of a key, a string, an integer or a data element, and
\* has a token before it.
TokenStart(w, p) ==
  /\ p > 1
  /\ w[p] = kPlistOpenTag
  /\ \A t \in {kPlistKeyEnd, kPlistStringEnd, kPlistIntegerEnd, kPlistBinaryEnd} :
       IF p + Len(t) - 1 > Len(w) THEN TRUE
       ELSE SubSeq(w, p, p + Len(t) - 1) # t

\* Where the spaces and newlines that end right before position p begin.
RECURSIVE GapStart(_, _)
GapStart(w, p) ==
  IF p > 1 /\ w[p - 1] \in {kPlistSpace, kPlistNewline}
  THEN GapStart(w, p - 1) ELSE p

\* The document w with the bytes between the token at p and the one
\* before it replaced by run.
Replace(w, p, run) ==
  SubSeq(w, 1, GapStart(w, p) - 1) \o run \o SubSeq(w, p, Len(w))

\* The positions of w at which a token starts.
Tokens(w) == {p \in 1..Len(w) : TokenStart(w, p)}

\* The same for every token of w at a position in ps, last token first:
\* replacing the bytes before a token moves no earlier token.  The runs
\* alternate between run and other.
RECURSIVE ReplaceAll(_, _, _, _)
ReplaceAll(w, ps, run, other) ==
  IF ps = {} THEN w
  ELSE LET p == CHOOSE q \in ps : \A r \in ps : r <= q
       IN  ReplaceAll(Replace(w, p, run), ps \ {p}, other, run)

\* The bytes before one token are replaced.
Perturb(run) ==
  /\ phase = "wire" /\ edits = 0
  /\ \E p \in 1..Len(wire) :
       /\ TokenStart(wire, p)
       /\ Replace(wire, p, run) # wire
       /\ wire' = Replace(wire, p, run)
  /\ edits' = 1
  /\ UNCHANGED <<wr, rd, calls, open, phase, rix, budget>>

\* The bytes before every token are replaced, by two runs in turn.
PerturbAll(run, other) ==
  /\ phase = "wire" /\ edits = 0
  /\ ReplaceAll(wire, Tokens(wire), run, other) # wire
  /\ wire' = ReplaceAll(wire, Tokens(wire), run, other)
  /\ edits' = 1
  /\ UNCHANGED <<wr, rd, calls, open, phase, rix, budget>>

NextWs ==
  \/ WriteStructBegin
  \/ \E name \in FieldNames : WriteFieldBegin(name)
  \/ WriteFieldEnd
  \/ WriteFieldStop
  \/ WriteStructEnd
  \/ WriteListBegin
  \/ WriteListEnd
  \/ WriteMapBegin
  \/ WriteMapEnd
  \/ \E v \in BoolVals : WriteBool(v)
  \/ \E v \in I32Vals : WriteI32(v)
  \/ \E v \in StringVals : WriteString(v)
  \/ \E v \in BinaryVals : WriteBinary(v)
  \/ Finish
  \/ \E run \in Runs : Perturb(run)
  \/ \E run, other \in Runs : PerturbAll(run, other)
  \/ StartRead
  \/ ReadStructBegin
  \/ ReadFieldBegin
  \/ ReadFieldEnd
  \/ ReadStructEnd
  \/ ReadListBegin
  \/ ReadListEnd
  \/ ReadMapBegin
  \/ ReadMapEnd
  \/ ReadBool
  \/ ReadI32
  \/ ReadString
  \/ ReadBinary

SpecWs == Start(WsVals) /\ [][NextWs]_vars

(***************************************************************************)
(* A specification of the message envelope: one message is written, the    *)
(* version number of the document may be replaced by another text, and the *)
(* envelope is read back.                                                  *)
(***************************************************************************)
MsgNames == {<<>>, <<"m">>, <<"a", "&">>}
MsgTypes == 1..4
MsgDomain ==
  [name : MsgNames, messageType : MsgTypes, seqid : I32Domain]

VersionTexts ==
  {<<"0">>, <<"2">>, <<"3">>, <<"1","0">>, <<"1","1">>, <<"0","1">>,
   <<"6","5","5","3","7">>, <<"2","1","4","7","4","8","3","6","4","7">>,
   <<"4","2","9","4","9","6","7","2","9","7">>}

\* A document whose message array starts with the integer of text t in
\* place of the version 1.
BadVersion(t) ==
  /\ phase = "wire" /\ edits = 0
  /\ wire' = kPlistArrayStart \o kPlistIntegerStart \o t
               \o SubSeq(wire, Len(kPlistArrayStart) + Len(kPlistIntegerStart) + 2,
                         Len(wire))
  /\ edits' = 1
  /\ UNCHANGED <<wr, rd, calls, open, phase, rix, budget>>

NextMsg ==
  \/ CanValue /\ \E m \in MsgDomain : WriteMessageBegin(m)
  \/ WriteMessageEnd
  \/ Finish
  \/ \E t \in VersionTexts : BadVersion(t)
  \/ StartRead
  \/ ReadMessageBegin
  \/ ReadMessageEnd

SpecMsg == Start(1) /\ [][NextMsg]_vars

(***************************************************************************)
(* A specification of the doubles: one double is written and read back.    *)
(***************************************************************************)
MaxWhole == 12
DoubleDomain ==
  {Double(cls, neg, 0) : cls \in {"nan", "inf"}, neg \in BOOLEAN}
    \cup {Double("fin", neg, n) : neg \in BOOLEAN, n \in 0..MaxWhole}

NextDbl ==
  \/ CanValue /\ \E v \in DoubleDomain : WriteDouble(v)
  \/ Finish
  \/ StartRead
  \/ ReadDouble

SpecDbl == Start(1) /\ [][NextDbl]_vars

(***************************************************************************)
(* A specification of the prolog: a struct is written at top level, what   *)
(* comes before its <dict> in the document may be replaced by another      *)
(* text, and the document is read.                                         *)
(***************************************************************************)
DocVals == 2

\* <?xml ... ?> and the newline after it.
XmlDecl == SubSeq(kPlistHeader, 1, FirstClose(kPlistHeader) + 1)

\* The prolog without its DOCTYPE line.
NoDoctype == XmlDecl \o kPlistPlistStart

Prologs ==
  {NoDoctype,
   <<>>,
   <<"<","a",">","<","b",">">>,
   <<"<","a",">","<","b",">","<","c",">">>,
   <<"<","a",">","<","b",">","<","c",">","<","d",">">>,
   <<">",">",">">>,
   <<">"," ",">","\n",">"," ","\n">>}

\* A document that has the text pro where the codec wrote the XML
\* declaration, the DOCTYPE and <plist version="1.0">.
SetProlog(pro) ==
  /\ phase = "wire" /\ edits = 0
  /\ calls[1].op = "writeStructBegin"
  /\ wire' = pro \o SubSeq(wire, Len(kPlistHeader) + Len(kPlistPlistStart) + 1,
                           Len(wire))
  /\ edits' = 1
  /\ UNCHANGED <<wr, rd, calls, open, phase, rix, budget>>

NextDoc ==
  \/ WriteStructBegin
  \/ WriteStructEnd
  \/ \E name \in FieldNames : WriteFieldBegin(name)
  \/ WriteFieldEnd
  \/ WriteFieldStop
  \/ \E v \in BoolVals : WriteBool(v)
  \/ Finish
  \/ \E pro \in Prologs : SetProlog(pro)
  \/ StartRead
  \/ ReadStructBegin
  \/ ReadStructEnd
  \/ ReadFieldBegin
  \/ ReadFieldEnd
  \/ ReadBool

SpecDoc == Start(DocVals) /\ [][NextDoc]_vars

(***************************************************************************)
(* A specification of the fixed tags: values and containers are written,   *)
(* one tag of the document may be replaced by another text, and the        *)
(* document is read.                                                       *)
(***************************************************************************)
TagVals == 2

FixedTags ==
  {kPlistObjectStart, kPlistObjectEnd, kPlistArrayStart, kPlistArrayEnd,
   kPlistKeyStart, kPlistKeyEnd, kPlistStringStart, kPlistStringEnd,
   kPlistBinaryStart, kPlistBinaryEnd, kPlistIntegerStart, kPlistIntegerEnd,
   kPlistRealStart, kPlistRealEnd, kPlistPlistEnd}

\* Texts put in the place of a tag: fixed tags, elements that are not of
\* the subset the codec knows, and both after a space and a newline.
TagTexts ==
  {kPlistObjectEnd, kPlistArrayStart, kPlistKeyStart, kPlistStringStart,
   kPlistIntegerEnd,
   <<"<","d","a","t","e",">">>,
   <<kPlistSpace, kPlistNewline>> \o kPlistArrayEnd,
   <<kPlistSpace, kPlistNewline>> \o <<"<","d","a","t","e",">">>}

\* The tag of w that starts at q: the bytes from q to the next '>'.
TagAt(w, q) ==
  LET k == FirstClose(SubSeq(w, q, Len(w)))
  IN IF w[q] = kPlistOpenTag /\ k > 0 THEN SubSeq(w, q, q + k - 1) ELSE <<>>

\* s without the spaces and newlines it starts with.
Strip(s) ==
  LET k == CHOOSE k \in 0..Len(s) :
             /\ \A j \in 1..k : s[j] \in {kPlistSpace, kPlistNewline}
             /\ k < Len(s) => s[k + 1] \notin {kPlistSpace, kPlistNewline}
  IN SubSeq(s, k + 1, Len(s))

\* A document that has the text t, which is not that tag after spaces and
\* newlines, where the codec wrote the fixed tag that starts at q.
SwapTag(q, t) ==
  /\ phase = "wire" /\ edits = 0
  /\ TagAt(wire, q) \in FixedTags
  /\ Strip(t) # TagAt(wire, q)
  /\ wire' = SubSeq(wire, 1, q - 1) \o t
               \o SubSeq(wire, q + Len(TagAt(wire, q)), Len(wire))
  /\ edits' = 1
  /\ UNCHANGED <<wr, rd, calls, open, phase, rix, budget>>

TagDoubles == {Double("inf", TRUE, 0)}

NextTag ==
  \/ WriteStructBegin
  \/ WriteStructEnd
  \/ \E name \in FieldNames : WriteFieldBegin(name)
  \/ WriteFieldEnd
  \/ WriteFieldStop
  \/ WriteMapBegin
  \/ WriteMapEnd
  \/ WriteListBegin
  \/ WriteListEnd
  \/ \E v \in I32Vals : WriteI32(v)
  \/ \E v \in TagDoubles : WriteDouble(v)
  \/ \E v \in StringVals : WriteString(v)
  \/ \E v \in BinaryVals : WriteBinary(v)
  \/ Finish
  \/ phase = "wire" /\ \E q \in 1..Len(wire), t \in TagTexts : SwapTag(q, t)
  \/ StartRead
  \/ ReadStructBegin \/ ReadStructEnd
  \/ ReadFieldBegin \/ ReadFieldEnd
  \/ ReadMapBegin \/ ReadMapEnd
  \/ ReadListBegin \/ ReadListEnd
  \/ ReadI32 \/ ReadDouble \/ ReadString \/ ReadBinary

SpecTag == Start(TagVals) /\ [][NextTag]_vars

(***************************************************************************)
(* A specification of the booleans: one boolean is written, the document   *)
(* may be replaced by a text near <true/> or <false/>, and it is read.     *)
(***************************************************************************)
\* The texts one edit away from lit: a space or a newline put in, a byte
\* replaced by x, a byte left out.
Near(lit) ==
  {SubSeq(lit, 1, i) \o <<c>> \o SubSeq(lit, i + 1, Len(lit)) :
     i \in 0..Len(lit), c \in {kPlistSpace, kPlistNewline}}
    \cup {[lit EXCEPT ![i] = "x"] : i \in 1..Len(lit)}
    \cup {SubSeq(lit, 1, i - 1) \o SubSeq(lit, i + 1, Len(lit)) : i \in 1..Len(lit)}

BoolTails == {<<>>, <<"<","a",">">>}

BoolTexts ==
  {t \o tail : t \in {kPlistStringTrue, kPlistStringFalse}
                       \cup Near(kPlistStringTrue) \cup Near(kPlistStringFalse),
               tail \in BoolTails}

\* A document that is the text t.
SetBool(t) ==
  /\ phase = "wire" /\ edits = 0
  /\ wire' = t
  /\ edits' = 1
  /\ UNCHANGED <<wr, rd, calls, open, phase, rix, budget>>

NextBool ==
  \/ \E v \in BoolVals : WriteBool(v)
  \/ Finish
  \/ \E t \in BoolTexts : SetBool(t)
  \/ StartRead
  \/ ReadBool

SpecBool == Start(1) /\ [][NextBool]_vars

(***************************************************************************)
(* A specification of the integer texts: one integer of any width is       *)
(* written, the number between <integer> and </integer> may be replaced,   *)
(* and the document is read with the read call of the same width.          *)
(***************************************************************************)
NumVals == {-1, 0, 7}
Num64Vals == {Int64(TRUE, 0, 0, 0, 1), Int64(FALSE, 0, 0, 0, 7)}

\* Texts that are no number, numbers around the limits of a byte and of the
\* widths of 16, 32 and 64 bits, and numbers stopped by a foreign byte.
NumTexts ==
  {<<>>, <<"1",".","5">>, <<"1","e","3">>, <<"-","-","1">>, <<"+">>, <<"-">>,
   <<"1","-">>, <<"x">>, <<"1","x">>, <<"+","7">>, <<"-","0">>,
   <<"0","0","7">>, <<".">>, <<"E">>, <<"1","2","7">>, <<"1","2","8">>,
   <<"2","5","5">>, <<"2","5","6">>, <<"3","0","0">>, <<"-","1","2","8">>,
   <<"-","1","2","9">>, <<"-","2","0","0">>, <<"3","2","7","6","7">>,
   <<"3","2","7","6","8">>, <<"-","3","2","7","6","8">>,
   <<"-","3","2","7","6","9">>, <<"2","1","4","7","4","8","3","6","4","7">>,
   <<"2","1","4","7","4","8","3","6","4","8">>,
   <<"-","2","1","4","7","4","8","3","6","4","8">>,
   <<"-","2","1","4","7","4","8","3","6","4","9">>,
   <<"9","2","2","3","3","7","2","0","3","6","8","5","4","7","7","5","8","0","7">>,
   <<"9","2","2","3","3","7","2","0","3","6","8","5","4","7","7","5","8","0","8">>,
   <<"-","9","2","2","3","3","7","2","0","3","6","8","5","4","7","7","5","8","0","8">>,
   <<"-","9","2","2","3","3","7","2","0","3","6","8","5","4","7","7","5","8","0","9">>}

\* A document that is the integer element of the text t.
SetNumber(t) ==
  /\ phase = "wire" /\ edits = 0
  /\ wire' = kPlistIntegerStart \o t \o kPlistIntegerEnd
  /\ edits' = 1
  /\ UNCHANGED <<wr, rd, calls, open, phase, rix, budget>>

NextNum ==
  \/ CanValue /\ \E v \in NumVals : WriteByte(v)
  \/ CanValue /\ \E v \in NumVals : WriteI16(v)
  \/ CanValue /\ \E v \in NumVals : WriteI32(v)
  \/ CanValue /\ \E v \in Num64Vals : WriteI64(v)
  \/ Finish
  \/ \E t \in NumTexts : SetNumber(t)
  \/ StartRead
  \/ ReadByte
  \/ ReadI16
  \/ ReadI32
  \/ ReadI64

SpecNum == Start(1) /\ [][NextNum]_vars

(***************************************************************************)
(* A specification of the string texts: one string is written, the text    *)
(* between <string> and </string> may be replaced by one that no writer    *)
(* produces, and the document is read.                                     *)
(***************************************************************************)
MaxRawLen == 3
RawAlphabet == {"a", "&", ";"}

\* Entities, beginnings of entities and ampersands that begin none.
RawTexts ==
  Strings(RawAlphabet, MaxRawLen) \cup
  {<<"a","&","b">>, <<"&","f","o","o",";">>, <<"&","l","t",";">>,
   <<"&","g","t",";">>, <<"&","a","m","p",";">>, <<"&","a","p","o","s",";">>,
   <<"&","q","u","o","t",";">>, <<"&","a","m","p",";","l","t",";">>,
   <<"x","&","l","t",";","y">>, <<"&","l","t">>, <<"&","a","m",";">>,
   <<"&","&","a","m","p",";">>, <<"a",">","b","'","\"">>,
   <<"&","q","u","o","t">>, <<"&","a","p","o","s",";","&">>,
   <<"&","L","T",";">>}

\* A document that is the string element of the text t.
SetString(t) ==
  /\ phase = "wire" /\ edits = 0
  /\ wire' = kPlistStringStart \o t \o kPlistStringEnd
  /\ edits' = 1
  /\ UNCHANGED <<wr, rd, calls, open, phase, rix, budget>>

NextRaw ==
  \/ \E v \in StringVals : WriteString(v)
  \/ Finish
  \/ \E t \in RawTexts : SetString(t)
  \/ StartRead
  \/ ReadString

SpecRaw == Start(1) /\ [][NextRaw]_vars

(***************************************************************************)
(* A specification of the keys with the characters that have an entity:    *)
(* a struct of one field at most, written and read.                        *)
(***************************************************************************)
MaxEntLen == 2
EntAlphabet == {"a", "_", "&", "<", ">", "\"", "'"}
EntKeys == Strings(EntAlphabet, MaxEntLen)

NextEnt ==
  \/ WriteStructBegin
  \/ \E name \in EntKeys : WriteFieldBegin(name)
  \/ \E v \in BoolVals : WriteBool(v)
  \/ WriteFieldEnd
  \/ WriteFieldStop
  \/ WriteStructEnd
  \/ Finish
  \/ StartRead
  \/ ReadStructBegin
  \/ ReadFieldBegin
  \/ ReadBool
  \/ ReadFieldEnd
  \/ ReadStructEnd

SpecEnt == Start(2) /\ [][NextEnt]_vars

(***************************************************************************)
(* A specification of the LookaheadReader alone: over a source of a few    *)
(* bytes the caller issues read(), peek(), peek(n), consume(n) and         *)
(* readSyntaxString of <array> in any order, until one of them throws.     *)
(***************************************************************************)
MaxOps == 3
MaxPeek == 3

ReaderSources ==
  {<<"a">> \o kPlistArrayStart \o <<"b">>,
   <<kPlistSpace,"<","a","r","r">>,
   <<"a","b","c","d","e">>}

StartReader ==
  /\ wr = NewProtocol(<<>>)
  /\ wire \in ReaderSources
  /\ rd = NewProtocol(wire)
  /\ calls = <<>>
  /\ open = <<>>
  /\ phase = "reader"
  /\ rix = 0
  /\ budget = MaxOps
  /\ edits = 0

\* One call on the reader, noted with its argument.
ReaderCall(op, arg, P) ==
  /\ phase = "reader" /\ Ok(rd) /\ budget > 0
  /\ rd' = P
  /\ calls' = Append(calls, [op |-> op, arg |-> arg])
  /\ budget' = budget - 1
  /\ UNCHANGED <<wr, wire, open, phase, rix, edits>>

CallRead == ReaderCall("read", 1, reader_read(rd))

CallPeek == ReaderCall("peek", 1, reader_peek(rd))

\* The bytes that trans_->readAll(data, toread) writes in peek(size) and
\* consume(size): toread of them, or those the source still has.
Written(P, size) ==
  IF Len(P.buffer_) >= size THEN 0
  ELSE IF Len(P.in) >= size - Len(P.buffer_) THEN size - Len(P.buffer_)
  ELSE Len(P.in)

\* data = new char(toread) is a block of one byte: a readAll that writes
\* more runs over its end, and the behaviour is undefined.  Either the bytes
\* lie in the slack of the allocation and the call goes on to Q, or the
\* heap is damaged and the process is lost.
Outcomes(P, size, Q) ==
  IF Ok(P) /\ Written(P, size) > 1 THEN {Q, Throw(P, "HEAP_OVERFLOW")} ELSE {Q}

CallPeekN(n) ==
  \E Q \in Outcomes(rd, n, reader_peekN(rd, n)) : ReaderCall("peekN", n, Q)

CallConsume(n) ==
  \E Q \in Outcomes(rd, n, reader_consume(rd, n)) : ReaderCall("consume", n, Q)

\* readSyntaxString(reader_, "<array>"): the peek(n) after the spaces are
\* skipped, and the consume(n) that finds the bytes in the buffer.
CallSyntax ==
  \E Q \in Outcomes(readSyntaxString_loop(reader_peek(Enter(rd))),
                    Len(kPlistArrayStart),
                    readPlistSyntaxString(Enter(rd), kPlistArrayStart)) :
    ReaderCall("readSyntaxString", Len(kPlistArrayStart), Q)

NextReader ==
  \/ CallRead
  \/ CallPeek
  \/ \E n \in 1..MaxPeek : CallPeekN(n)
  \/ \E n \in 1..MaxPeek : CallConsume(n)
  \/ CallSyntax

SpecReader == StartReader /\ [][NextReader]_vars

(***************************************************************************)
(* Properties.  Seg(i) is what write call i appended to the output.        *)
(***************************************************************************)
Seg(i) ==
  SubSeq(wr.out, calls[i].at + 1,
         IF i < Len(calls) THEN calls[i + 1].at ELSE Len(wr.out))

StartsWith(s, p) == Len(s) >= Len(p) /\ SubSeq(s, 1, Len(p)) = p

EndsWith(s, p) == Len(s) >= Len(p) /\ SubSeq(s, Len(s) - Len(p) + 1, Len(s)) = p

\* The number of places of s at which p occurs.
Occ(s, p) ==
  Cardinality({i \in 1..(Len(s) - Len(p) + 1) :
                 s[i] = p[1] /\ SubSeq(s, i, i + Len(p) - 1) = p})

\* The number of bytes of s equal to ch.
Count(s, ch) == Cardinality({i \in 1..Len(s) : s[i] = ch})

\* The write calls that put a token (a key, a value, the start of a
\* container) into the container the caller is in.
TokenOps ==
  {"writeMessageBegin", "writeStructBegin", "writeFieldBegin", "writeMapBegin",
   "writeListBegin", "writeSetBegin", "writeBool", "writeByte", "writeI16",
   "writeI32", "writeI64", "writeString", "writeBinary"}

ValueOps ==
  {"writeBool", "writeByte", "writeI16", "writeI32", "writeI64", "writeString",
   "writeBinary"}

\* The number of plist containers that the first n calls leave open: a
\* map is an array and a dict in it.
RECURSIVE Depth(_)
Depth(n) ==
  IF n = 0 THEN 0
  ELSE Depth(n - 1) +
       CASE calls[n].op \in {"writeMessageBegin", "writeStructBegin",
                             "writeListBegin", "writeSetBegin"} -> 1
         [] calls[n].op = "writeMapBegin" -> 2
         [] calls[n].op \in {"writeMessageEnd", "writeStructEnd",
                             "writeListEnd", "writeSetEnd"} -> -1
         [] calls[n].op = "writeMapEnd" -> -2
         [] OTHER -> 0

Reading == phase \in {"read", "done"}

\* C1: a writeStructBegin on an empty stack emits the prologue (XML
\* declaration, DOCTYPE) and <plist version="1.0"> once and then <dict>;
\* the writeStructEnd that empties the stack emits </plist> once, right
\* after </dict>; a struct begun or ended inside an open container emits
\* neither, and no other call does; so prologues minus </plist> tags is
\* 0 or 1 at every point, and 0 whenever the stack is empty.
C1_PlistWrapper ==
  /\ \A i \in 1..Len(calls) :
       LET op == calls[i].op
           d == calls[i].d
       IN /\ (op = "writeStructBegin" /\ d = 0) =>
               Seg(i) = kPlistHeader \o kPlistPlistStart \o kPlistObjectStart
          /\ ~(op = "writeStructBegin" /\ d = 0) =>
               Occ(Seg(i), kPlistHeader) = 0 /\ Occ(Seg(i), kPlistPlistStart) = 0
          /\ (op = "writeStructBegin" /\ d > 0) => EndsWith(Seg(i), kPlistObjectStart)
          /\ (op = "writeStructEnd" /\ d = 1) =>
               /\ EndsWith(Seg(i), kPlistObjectEnd \o kPlistPlistEnd)
               /\ Occ(Seg(i), kPlistPlistEnd) = 1
          /\ ~(op = "writeStructEnd" /\ d = 1) => Occ(Seg(i), kPlistPlistEnd) = 0
  /\ Occ(wr.out, kPlistHeader) = Occ(wr.out, kPlistPlistStart)
  /\ Occ(wr.out, kPlistHeader) - Occ(wr.out, kPlistPlistEnd) \in {0, 1}
  /\ wr.contexts_ = <<>> =>
       Occ(wr.out, kPlistHeader) = Occ(wr.out, kPlistPlistEnd)

\* A top-level struct that holds a nested struct has been written to its end.
C1_Witness ==
  /\ wr.contexts_ = <<>>
  /\ \E i, j, k, l \in 1..Len(calls) :
       /\ i < j /\ j < k /\ k < l
       /\ calls[i].op = "writeStructBegin" /\ calls[i].d = 0
       /\ calls[j].op = "writeStructBegin" /\ calls[j].d = 1
       /\ calls[k].op = "writeStructEnd" /\ calls[k].d = 2
       /\ calls[l].op = "writeStructEnd" /\ calls[l].d = 1

\* C2: on the write side and on the read side the active context is not
\* stored on the stack, the stack holds one context per open plist
\* container after every call, popContext never runs on an empty stack,
\* and once every container is ended the stack is empty and the active
\* context is the Base context the codec was constructed with.
C2_PushPopBalance ==
  /\ ~wr.ub /\ ~rd.ub
  /\ \A k \in 1..Len(wr.contexts_) : wr.contexts_[k].id # wr.context_.id
  /\ \A k \in 1..Len(rd.contexts_) : rd.contexts_[k].id # rd.context_.id
  /\ Len(wr.contexts_) = Depth(Len(calls))
  /\ \A i \in 1..Len(calls) : calls[i].d = Depth(i - 1)
  /\ (Reading /\ Ok(rd)) => Len(rd.contexts_) = Depth(rix)
  /\ Depth(Len(calls)) = 0 => wr.contexts_ = <<>> /\ wr.context_ = TPlistContext
  /\ (Reading /\ Ok(rd) /\ Depth(rix) = 0) =>
       rd.contexts_ = <<>> /\ rd.context_ = TPlistContext

\* A sequence that had three plist containers open (a map in a struct or in
\* a list) has been written and read back to its end.
C2_Witness ==
  /\ phase = "done"
  /\ \E i \in 1..Len(calls) : calls[i].d >= 3
  /\ wr.news > 3 /\ rd.news > 3

\* C3: the read calls that mirror the write calls of a top-level struct
\* raise no error, never ask the transport for bytes it does not have,
\* report the stop sentinel exactly where writeFieldStop was called, and
\* have consumed every emitted byte when the last of them returns.
C3_ReadMirrorsWrite ==
  (Reading /\ calls[1].op = "writeStructBegin") =>
    /\ Ok(rd) /\ ~rd.short /\ ~rd.ub
    /\ rix > 0 =>
         /\ calls[rix].op = "writeFieldStop" => rd.fieldType = "T_STOP"
         /\ calls[rix].op = "writeFieldBegin" => rd.fieldType # "T_STOP"
    /\ Len(rd.buffer_) + Len(rd.in) <= Len(wire)
    /\ phase = "done" => rd.in = <<>> /\ rd.buffer_ = <<>>

\* A top-level struct with a field that holds a container has been read
\* back to its end.
C3_Witness ==
  /\ phase = "done"
  /\ calls[1].op = "writeStructBegin"
  /\ calls[Len(calls)].op = "writeStructEnd"
  /\ \E i \in 1..Len(calls) : calls[i].op = "writeFieldBegin"
  /\ \E i \in 1..Len(calls) : calls[i].op \in {"writeListBegin", "writeMapBegin"}
  /\ rd.fieldType = "T_STOP"

\* The calls made directly in a top-level struct.
InTopStruct(i) == calls[i].d = 1 /\ calls[i].c = "struct"

\* C4 as stated: the writeStructEnd of a top-level struct with at least one
\* field emits </dict></plist> and nothing before it.
C4_Stated ==
  \A i \in 1..Len(calls) :
    (calls[i].op = "writeStructEnd" /\ InTopStruct(i) /\ calls[i].sib) =>
      Seg(i) = kPlistObjectEnd \o kPlistPlistEnd

\* C4: a top-level struct with at least one field is written as the
\* prologue, <plist version="1.0"><dict>, the first key right after it,
\* every later key and value after exactly one space, and after the
\* closing tag of the last value one space and then </dict></plist>.
C4_TopLevelStruct ==
  \A i \in 1..Len(calls) :
    /\ (calls[i].op = "writeStructBegin" /\ calls[i].d = 0) =>
         Seg(i) = kPlistHeader \o kPlistPlistStart \o kPlistObjectStart
    /\ (InTopStruct(i) /\ calls[i].op \in TokenOps) =>
         /\ EndsWith(Seg(i), <<kPlistCloseTag>>)
         /\ IF calls[i].sib THEN StartsWith(Seg(i), <<kPlistSpace, kPlistOpenTag>>)
            ELSE calls[i].op = "writeFieldBegin" /\ StartsWith(Seg(i), kPlistKeyStart)
    /\ (InTopStruct(i) /\ calls[i].op \in {"writeFieldEnd", "writeFieldStop"}) =>
         Seg(i) = <<>>
    /\ (InTopStruct(i) /\ calls[i].op = "writeStructEnd") =>
         Seg(i) = (IF calls[i].sib THEN <<kPlistSpace>> ELSE <<>>)
                    \o kPlistObjectEnd \o kPlistPlistEnd

\* A top-level struct with a field has been written to its end.
C4_Witness ==
  \E i \in 1..Len(calls) :
    /\ calls[i].op = "writeStructEnd" /\ InTopStruct(i) /\ calls[i].sib
    /\ calls[i - 1].op = "writeFieldStop"

\* C5: a token that has a sibling before it in its dict or array comes
\* after exactly one space, the first token of a container and a token
\* in the Base context come after none, and the only newlines of the
\* output are the two of the prologue.
C5_Separators ==
  \A i \in 1..Len(calls) :
    /\ calls[i].op \in TokenOps =>
         /\ StartsWith(Seg(i), IF calls[i].sib THEN <<kPlistSpace, kPlistOpenTag>>
                               ELSE <<kPlistOpenTag>>)
         /\ calls[i].op \in ValueOps \cup {"writeFieldBegin"} =>
              Count(Seg(i), kPlistSpace) = IF calls[i].sib THEN 1 ELSE 0
    /\ calls[i].d = 0 => ~calls[i].sib
    /\ Count(Seg(i), kPlistNewline) =
         IF calls[i].op = "writeStructBegin" /\ calls[i].d = 0
         THEN Count(kPlistHeader, kPlistNewline) ELSE 0

\* A list with two elements has been written: the first without a
\* separator, the second after one.
C5_Witness ==
  \E i, j \in 1..Len(calls) :
    /\ i < j
    /\ calls[i].c = "list" /\ ~calls[i].sib /\ calls[i].op \in ValueOps
    /\ calls[j].c = "list" /\ calls[j].sib /\ calls[j].op \in ValueOps
    /\ calls[j].at = calls[i].at + Len(Seg(i))

\* What the read call that mirrors write call c has handed back.
Returned(c) ==
  CASE c.op \in ValueOps -> rd.val = c.arg
    [] c.op = "writeFieldBegin" ->
         /\ rd.name = [i \in 1..Len(c.arg) |-> IF c.arg[i] = "-" THEN "_" ELSE c.arg[i]]
         /\ rd.fieldType # "T_STOP"
    [] c.op = "writeFieldStop" -> rd.fieldType = "T_STOP"
    [] OTHER -> TRUE

\* The separator that comes before the token of call i.
Sep(i) == IF calls[i].sib THEN <<kPlistSpace>> ELSE <<>>

\* The entity of one of the five characters, any other character itself.
Entity(ch) ==
  CASE ch = "\"" -> <<"&","q","u","o","t",";">>
    [] ch = "'" -> <<"&","a","p","o","s",";">>
    [] ch = "<" -> <<"&","l","t",";">>
    [] ch = ">" -> <<"&","g","t",";">>
    [] ch = "&" -> <<"&","a","m","p",";">>
    [] OTHER -> <<ch>>

RECURSIVE Escaped(_)
Escaped(str) ==
  IF Len(str) = 0 THEN <<>> ELSE Entity(Head(str)) \o Escaped(Tail(str))

\* C6: writeString(s) puts between <string> and </string> the characters
\* of s, each of " ' < > & as its entity and every other one unchanged, so
\* that none of " ' < > is on the wire as itself, and readString on these
\* bytes hands back s.
C6_StringRoundTrip ==
  /\ \A i \in 1..Len(calls) :
       calls[i].op = "writeString" =>
         /\ Seg(i) = Sep(i) \o kPlistStringStart \o Escaped(calls[i].arg)
                       \o kPlistStringEnd
         /\ Count(Seg(i), "\"") = 0 /\ Count(Seg(i), "'") = 0
         /\ Count(Seg(i), "<") = 2 /\ Count(Seg(i), ">") = 2
         /\ Count(Seg(i), "&") =
              Cardinality({k \in 1..Len(calls[i].arg) :
                             InSeq(calls[i].arg[k], kEscapeChars)})
  /\ (Reading /\ rix > 0 /\ calls[rix].op = "writeString") =>
       Ok(rd) /\ rd.val = calls[rix].arg

\* The string &lt; has been written and read back.
C6_Witness ==
  /\ phase = "done"
  /\ calls[1].op = "writeString"
  /\ calls[1].arg = <<"&","l","t",";">>
  /\ rd.val = calls[1].arg

\* C7: writeFieldBegin puts the name between <key> and </key> with every
\* '_' as '-'; readFieldBegin hands back the key text with every '-' as
\* '_', which is the name written when that name has no '-'.
C7_KeyMapping ==
  /\ \A i \in 1..Len(calls) :
       calls[i].op = "writeFieldBegin" =>
         Seg(i) = Sep(i) \o kPlistKeyStart
                    \o [k \in 1..Len(calls[i].arg) |->
                          IF calls[i].arg[k] = "_" THEN "-" ELSE calls[i].arg[k]]
                    \o kPlistKeyEnd
  /\ (Reading /\ rix > 0 /\ calls[rix].op = "writeFieldBegin") =>
       /\ Ok(rd)
       /\ Len(rd.name) = Len(calls[rix].arg)
       /\ \A k \in 1..Len(rd.name) :
            rd.name[k] = IF calls[rix].arg[k] = "-" THEN "_" ELSE calls[rix].arg[k]
       /\ Count(calls[rix].arg, "-") = 0 => rd.name = calls[rix].arg

\* A name with a '_' and a '-' has been written and read back.
C7_Witness ==
  /\ phase = "done"
  /\ \E i \in 1..Len(calls) :
       /\ calls[i].op = "writeFieldBegin"
       /\ calls[i].arg = <<"a", "_", "-", "1">>
  /\ rd.name = <<"a", "_", "_", "1">>

\* The decimal digits of a number n >= 0.
RECURSIVE Dec(_)
Dec(n) ==
  IF n < 10 THEN <<DigitChars[n + 1]>>
  ELSE Append(Dec(n \div 10), DigitChars[(n % 10) + 1])

\* C8: writeByte, writeI16, writeI32 and writeI64 of v followed by the read
\* of the same width hand back v, and a byte goes out as its decimal
\* number between <integer> and </integer>.
C8_IntegerRoundTrip ==
  /\ \A i \in 1..Len(calls) :
       calls[i].op = "writeByte" =>
         Seg(i) = Sep(i) \o kPlistIntegerStart
                    \o (IF calls[i].arg < 0 THEN <<"-">> \o Dec(0 - calls[i].arg)
                        ELSE Dec(calls[i].arg))
                    \o kPlistIntegerEnd
  /\ (Reading /\ rix > 0 /\
        calls[rix].op \in {"writeByte", "writeI16", "writeI32", "writeI64"}) =>
       Ok(rd) /\ rd.val = calls[rix].arg

\* The byte -128 has been written and read back.
C8_Witness ==
  /\ phase = "done"
  /\ calls[1].op = "writeByte"
  /\ calls[1].arg = -128
  /\ rd.val = -128

\* C9: writeBinary of n bytes puts between <data> and </data> four
\* characters for every three bytes and (n mod 3) + 1 characters for a rest
\* of one or two bytes, none of them '=' or a newline, and readBinary on
\* these bytes, also when one more character follows whole groups of four,
\* hands back the n bytes.
C9_BinaryRoundTrip ==
  /\ \A i \in 1..Len(calls) :
       calls[i].op = "writeBinary" =>
         LET n == Len(calls[i].arg)
         IN /\ StartsWith(Seg(i), Sep(i) \o kPlistBinaryStart)
            /\ EndsWith(Seg(i), kPlistBinaryEnd)
            /\ Len(Seg(i)) = Len(Sep(i)) + Len(kPlistBinaryStart)
                               + 4 * (n \div 3)
                               + (IF n % 3 = 0 THEN 0 ELSE (n % 3) + 1)
                               + Len(kPlistBinaryEnd)
            /\ Count(Seg(i), "=") = 0
            /\ Count(Seg(i), kPlistNewline) = 0
  /\ (Reading /\ rix > 0 /\ calls[rix].op = "writeBinary") =>
       Ok(rd) /\ rd.val = calls[rix].arg

\* Four bytes, a whole group and a rest of one, have been written and read
\* back.
C9_Witness ==
  /\ phase = "done"
  /\ calls[1].op = "writeBinary"
  /\ calls[1].arg = <<255, 0, 104, 251>>
  /\ rd.val = calls[1].arg

\* C10: on a document in which the bytes before tokens were replaced by
\* runs of spaces and newlines, every read call of the sequence that
\* decodes the document as written succeeds and hands back the name or
\* value that was written.
C10_WhitespaceTolerance ==
  Reading => Ok(rd) /\ (rix > 0 => Returned(calls[rix]))

\* A rewritten struct, longer than the one written, has been read to its end.
C10_Witness ==
  /\ phase = "done"
  /\ edits > 0
  /\ Len(wire) > Len(wr.out)
  /\ calls[1].op = "writeStructBegin"
  /\ \E i \in 1..Len(calls) : calls[i].op \in ValueOps

\* The text of the first integer of the message array of document w.
VersionText(w) ==
  LET from == Len(kPlistArrayStart) + Len(kPlistIntegerStart) + 1
      to == CHOOSE k \in from..Len(w) :
              w[k] = kPlistOpenTag /\ \A j \in from..(k - 1) : w[j] # kPlistOpenTag
  IN SubSeq(w, from, to - 1)

\* C11: readMessageBegin on a message array whose first integer is not 1
\* fails with BAD_VERSION, with name, type and seqid not assigned and the
\* input consumed up to the end of that integer only; when the first
\* integer is 1 it does not fail with BAD_VERSION.
C11_BadVersion ==
  (Reading /\ rix >= 1 /\ calls[1].op = "writeMessageBegin") =>
    LET t == VersionText(wire)
        read == Len(kPlistArrayStart) + Len(kPlistIntegerStart) + Len(t)
                  + Len(kPlistIntegerEnd)
    IN IF t \in {<<"1">>, <<"0","1">>}
       THEN rd.exc # "BAD_VERSION"
       ELSE /\ rix = 1
            /\ rd.exc = "BAD_VERSION"
            /\ rd.name = <<>> /\ rd.messageType = 0 /\ rd.seqid = 0
            /\ rd.buffer_ \o rd.in = SubSeq(wire, read + 1, Len(wire))

\* A message array that starts with the integer 2 has been refused.
C11_Witness ==
  /\ phase = "read"
  /\ rix = 1
  /\ calls[1].op = "writeMessageBegin"
  /\ VersionText(wire) = <<"2">>
  /\ rd.exc = "BAD_VERSION"

\* What the reader P has not consumed: the bytes looked at and the bytes
\* still in the transport.
Rest(P) == P.buffer_ \o P.in

\* s is t after spaces and newlines only.
SkipsTo(s, t) ==
  /\ Len(t) <= Len(s)
  /\ t = SubSeq(s, Len(s) - Len(t) + 1, Len(s))
  /\ \A j \in 1..(Len(s) - Len(t)) : s[j] \in {kPlistSpace, kPlistNewline}

\* C12: a readFieldBegin that meets </dict> after spaces and newlines
\* reports T_STOP with the tag unconsumed and the contexts unchanged, a
\* repeated call does the same, and the readStructEnd that follows
\* consumes </dict> (and </plist> at top level); a readFieldBegin that
\* meets a key consumes it and hands back the key as the name, fieldId -1
\* and fieldType T_VOID.
C12_FieldStop ==
  [][/\ ( /\ phase = "read"
          /\ \/ rix' = rix + 1 /\ calls[rix'].op = "writeFieldStop"
             \/ rix' = rix /\ rd' # rd /\ rix > 0 /\ calls[rix].op = "writeFieldStop" )
        => /\ Ok(rd') /\ rd'.fieldType = "T_STOP"
           /\ rd'.contexts_ = rd.contexts_ /\ rd'.context_ = rd.context_
           /\ SkipsTo(Rest(rd), Rest(rd'))
           /\ StartsWith(Rest(rd'), kPlistObjectEnd)
     /\ (phase = "read" /\ rix' = rix + 1 /\ calls[rix'].op = "writeStructEnd")
        => /\ Ok(rd')
           /\ StartsWith(Rest(rd), kPlistObjectEnd)
           /\ Rest(rd) = kPlistObjectEnd
                           \o (IF Len(rd.contexts_) = 1 THEN kPlistPlistEnd ELSE <<>>)
                           \o Rest(rd')
     /\ (phase = "read" /\ rix' = rix + 1 /\ calls[rix'].op = "writeFieldBegin")
        => /\ Ok(rd')
           /\ Rest(rd) = Seg(rix') \o Rest(rd')
           /\ rd'.name = [i \in 1..Len(calls[rix'].arg) |->
                            IF calls[rix'].arg[i] = "-" THEN "_" ELSE calls[rix'].arg[i]]
           /\ rd'.fieldId = -1
           /\ rd'.fieldType = "T_VOID"
    ]_vars

\* After a field, the stop has been reported a second time: the first call
\* counted the space before </dict>, the second found nothing to skip.
C12_Witness ==
  /\ phase = "read"
  /\ rix > 2
  /\ calls[rix].op = "writeFieldStop"
  /\ calls[2].op = "writeFieldBegin"
  /\ rd.fieldType = "T_STOP"
  /\ rd.ret = 0

\* The decimal text of a 32-bit number.
DecInt(n) ==
  IF n >= 0 THEN Dec(n)
  ELSE IF n = Int32Min THEN <<"-","2","1","4","7","4","8","3","6","4","8">>
  ELSE <<"-">> \o Dec(0 - n)

IntegerToken(n) == kPlistIntegerStart \o DecInt(n) \o kPlistIntegerEnd

\* C13: writeMessageBegin emits <array>, the integer 1, the name as a
\* string, the type and the seqid as integers, in this order and with one
\* space between them; writeMessageEnd emits </array>; readMessageBegin on
\* these bytes hands back the name, the type and the seqid, and
\* readMessageEnd consumes </array> and leaves the context stack and the
\* active context as they were before readMessageBegin.
C13_MessageEnvelope ==
  /\ \A i \in 1..Len(calls) :
       /\ calls[i].op = "writeMessageBegin" =>
            Seg(i) = Sep(i) \o kPlistArrayStart \o IntegerToken(1)
                       \o <<kPlistSpace>> \o kPlistStringStart
                       \o Escaped(calls[i].arg.name) \o kPlistStringEnd
                       \o <<kPlistSpace>> \o IntegerToken(calls[i].arg.messageType)
                       \o <<kPlistSpace>> \o IntegerToken(calls[i].arg.seqid)
       /\ calls[i].op = "writeMessageEnd" => Seg(i) = kPlistArrayEnd
  /\ (Reading /\ edits = 0 /\ rix >= 1 /\ calls[1].op = "writeMessageBegin") =>
       /\ Ok(rd)
       /\ rd.name = calls[1].arg.name
       /\ rd.messageType = calls[1].arg.messageType
       /\ rd.seqid = calls[1].arg.seqid
       /\ rix = 1 => /\ rd.contexts_ = <<TPlistContext>>
                     /\ rd.context_.kind = "List"
                     /\ Rest(rd) = kPlistArrayEnd
       /\ rix = 2 => /\ rd.contexts_ = <<>>
                     /\ rd.context_ = TPlistContext
                     /\ Rest(rd) = <<>>

\* A message with the least 32-bit seqid has been written and read back.
C13_Witness ==
  /\ phase = "done"
  /\ edits = 0
  /\ calls[1].op = "writeMessageBegin"
  /\ calls[1].arg.seqid = Int32Min
  /\ rd.seqid = Int32Min
  /\ rd.name = <<"a", "&">>
  /\ rd.contexts_ = <<>>

\* C14: writeDouble of a NaN emits <real>NaN</real>, of +infinity
\* <real>Infinity</real> and of -infinity <real>-Infinity</real>, and
\* readDouble on these bytes hands back a value of the same class (a NaN,
\* +infinity, -infinity).
C14_Stated ==
  /\ \A i \in 1..Len(calls) :
       (calls[i].op = "writeDouble" /\ calls[i].arg.cls # "fin") =>
         Seg(i) = Sep(i) \o kPlistRealStart
                    \o (IF calls[i].arg.cls = "nan" THEN <<"N","a","N">>
                        ELSE IF calls[i].arg.neg
                        THEN <<"-","I","n","f","i","n","i","t","y">>
                        ELSE <<"I","n","f","i","n","i","t","y">>)
                    \o kPlistRealEnd
  /\ (Reading /\ rix > 0 /\ calls[rix].op = "writeDouble"
        /\ calls[rix].arg.cls # "fin") =>
       /\ Ok(rd)
       /\ rd.val.cls = calls[rix].arg.cls
       /\ calls[rix].arg.cls = "inf" => rd.val.neg = calls[rix].arg.neg

C14_Witness ==
  /\ Len(calls) = 1
  /\ calls[1].op = "writeDouble"
  /\ calls[1].arg.cls = "nan"
  /\ calls[1].arg.neg
  /\ Seg(1) = kPlistRealStart \o <<"-", "n", "a", "n">> \o kPlistRealEnd

\* 2^32 - 1 as its high and low 16 bits.
UINT32_MAX == <<65535, 65535>>

\* The read call that mirrors write call i has consumed the separator of
\* token i and then exactly the bytes of tags.
Consumed(tags) == Rest(rd) = Sep(rix') \o tags \o Rest(rd')

\* The contexts of rd' are those of rd with the active context of rd saved
\* on top and then new contexts of the given kinds pushed, the last of
\* them active and not yet read through.
Pushed(kinds) ==
  LET n == Len(rd.contexts_)
      k == Len(kinds)
      all == rd'.contexts_ \o <<rd'.context_>>
  IN /\ Len(rd'.contexts_) = n + k
     /\ SubSeq(rd'.contexts_, 1, n) = rd.contexts_
     /\ all[n + 1].kind = rd.context_.kind /\ all[n + 1].id = rd.context_.id
     /\ \A j \in 1..k : all[n + 1 + j].kind = kinds[j]
     /\ rd'.context_.first_
     /\ \A j \in 1..(n + k), l \in 1..(n + k + 1) :
           j # l /\ all[j].kind # "Base" => all[j].id # all[l].id

\* C15: readListBegin and readSetBegin consume <array> and push a List
\* context, readMapBegin consumes <array> then <dict> and pushes a List
\* then a Pair context, and each reports size 2^32 - 1 whatever the
\* container holds.
C15_ContainerBegin ==
  [][/\ (phase = "read" /\ rix' = rix + 1
           /\ calls[rix'].op \in {"writeListBegin", "writeSetBegin"})
        => /\ Ok(rd')
           /\ Consumed(kPlistArrayStart)
           /\ Pushed(<<"List">>)
           /\ rd'.size = UINT32_MAX
     /\ (phase = "read" /\ rix' = rix + 1 /\ calls[rix'].op = "writeMapBegin")
        => /\ Ok(rd')
           /\ Consumed(kPlistArrayStart \o kPlistObjectStart)
           /\ Pushed(<<"List", "Pair">>)
           /\ rd'.size = UINT32_MAX
    ]_vars

\* readListBegin has reported 2^32 - 1 for a list of two elements.
C15_Witness ==
  /\ phase = "read"
  /\ rix = 1
  /\ Len(calls) = 4
  /\ calls[1].op = "writeListBegin"
  /\ calls[2].op \in ValueOps /\ calls[3].op \in ValueOps
  /\ calls[4].op = "writeListEnd"
  /\ rd.size = UINT32_MAX
  /\ rd.context_.kind = "List"
  /\ Len(rd.contexts_) = 1

\* The write call that begins the map which the next writeMapEnd ends.
MapBegin ==
  CHOOSE i \in 1..Len(calls) :
    /\ calls[i].op = "writeMapBegin" /\ calls[i].d = Len(wr.contexts_) - 2
    /\ \A j \in (i + 1)..Len(calls) :
          ~(calls[j].op = "writeMapBegin" /\ calls[j].d = calls[i].d)

Pushes(P, Q) == Q.news - P.news

Pops(P, Q) == Pushes(P, Q) - (Len(Q.contexts_) - Len(P.contexts_))

BeginOps ==
  {"writeMessageBegin", "writeStructBegin", "writeFieldBegin", "writeMapBegin",
   "writeListBegin", "writeSetBegin"}

EndOps ==
  {"writeMessageEnd", "writeStructEnd", "writeFieldEnd", "writeMapEnd",
   "writeListEnd", "writeSetEnd"}

\* The plist containers a call of the facade opens or closes.
Containers(op) ==
  CASE op \in {"writeMapBegin", "writeMapEnd"} -> 2
    [] op \in {"writeFieldBegin", "writeFieldEnd"} -> 0
    [] OTHER -> 1

\* The step is write call op, or the read call that mirrors it.
WriteStep(ops) ==
  phase = "write" /\ Len(calls') = Len(calls) + 1 /\ calls'[Len(calls')].op \in ops

ReadStep(ops) ==
  phase = "read" /\ rix' = rix + 1 /\ calls[rix'].op \in ops /\ Ok(rd')

\* C17 as stated: every Begin call of the facade, writing or reading,
\* pushes exactly one context and pops none, and every End call pops
\* exactly one and pushes none.
C17_Stated ==
  [][/\ WriteStep(BeginOps) => Pushes(wr, wr') = 1 /\ Pops(wr, wr') = 0
     /\ WriteStep(EndOps) => Pushes(wr, wr') = 0 /\ Pops(wr, wr') = 1
     /\ ReadStep(BeginOps) => Pushes(rd, rd') = 1 /\ Pops(rd, rd') = 0
     /\ ReadStep(EndOps) => Pushes(rd, rd') = 0 /\ Pops(rd, rd') = 1
    ]_vars

\* C17: a Begin call of the facade, writing or reading, pushes one context
\* for Message, Struct, List and Set, two for Map and none for Field, and
\* pops none; the End call of the pair pops as many as its Begin pushed
\* and pushes none; no pop finds the stack empty.
C17_PushPop ==
  [][/\ WriteStep(BeginOps) =>
           /\ Pushes(wr, wr') = Containers(calls'[Len(calls')].op)
           /\ Pops(wr, wr') = 0
     /\ WriteStep(EndOps) =>
           /\ Pushes(wr, wr') = 0
           /\ Pops(wr, wr') = Containers(calls'[Len(calls')].op)
           /\ ~wr'.ub
     /\ ReadStep(BeginOps) =>
           /\ Pushes(rd, rd') = Containers(calls[rix'].op)
           /\ Pops(rd, rd') = 0
     /\ ReadStep(EndOps) =>
           /\ Pushes(rd, rd') = 0
           /\ Pops(rd, rd') = Containers(calls[rix'].op)
           /\ ~rd'.ub
    ]_vars

\* A struct whose field holds a map has been written and read back: the
\* pairs of Struct, Field and Map have all run on both sides.
C17_Witness ==
  /\ phase = "done"
  /\ Len(calls) = 7
  /\ calls[1].op = "writeStructBegin"
  /\ calls[2].op = "writeFieldBegin"
  /\ calls[3].op = "writeMapBegin"
  /\ calls[4].op = "writeMapEnd"
  /\ calls[5].op = "writeFieldEnd"
  /\ calls[7].op = "writeStructEnd"
  /\ wr.news = 4 /\ rd.news = 4
  /\ wr.contexts_ = <<>> /\ rd.contexts_ = <<>>

\* What follows the n-th '>' of s; s has at least n.
AfterClose(s, n) ==
  LET i == CHOOSE i \in 1..Len(s) :
             s[i] = kPlistCloseTag /\ Count(SubSeq(s, 1, i), kPlistCloseTag) = n
  IN SubSeq(s, i + 1, Len(s))

\* What a readStructBegin that starts in rd looks for <dict> in: the
\* input as it is, or what follows its third '>' when the stack is empty.
DictInput ==
  IF rd.contexts_ # <<>> THEN <<Rest(rd)>>
  ELSE IF Count(Rest(rd), kPlistCloseTag) < 3 THEN <<>>
  ELSE <<AfterClose(Rest(rd), 3)>>

\* C18: readStructBegin with an empty stack discards the input up to and
\* including its third '>' and then requires <dict>; with a stack that is
\* not empty it discards nothing and requires <dict>; when it succeeds it
\* has consumed <dict> and what came before, and pushed one Pair context;
\* on the document as written it consumes exactly the bytes of the
\* writeStructBegin it mirrors.
C18_StructBegin ==
  [][(phase = "read" /\ rix' = rix + 1 /\ calls[rix'].op = "writeStructBegin")
       => /\ Ok(rd') <=> /\ DictInput # <<>>
                         /\ StartsWith(Strip(DictInput[1]), kPlistObjectStart)
          /\ Ok(rd') =>
                /\ Strip(DictInput[1]) = kPlistObjectStart \o Rest(rd')
                /\ Pushed(<<"Pair">>)
                /\ Pushes(rd, rd') = 1
          /\ ~Ok(rd') => rd'.contexts_ = rd.contexts_ /\ rd'.context_.kind = rd.context_.kind
          /\ edits = 0 => Ok(rd') /\ Rest(rd) = Seg(rix') \o Rest(rd')
    ]_vars

\* The struct in a field of a top-level struct has been begun by the
\* reader: the first readStructBegin discarded the prolog, the second
\* nothing.
C18_Witness ==
  /\ phase = "read" /\ edits = 0
  /\ rix = 3
  /\ calls[1].op = "writeStructBegin"
  /\ calls[2].op = "writeFieldBegin"
  /\ calls[3].op = "writeStructBegin"
  /\ Ok(rd)
  /\ Len(rd.contexts_) = 2
  /\ rd.context_.kind = "Pair"

\* The document begins with the XML declaration and <plist version="1.0">
\* and has no DOCTYPE between them.
LacksDoctype == edits = 1 /\ StartsWith(wire, NoDoctype \o kPlistObjectStart)

\* C19: a top-level document with the XML declaration and <plist
\* version="1.0"> but no DOCTYPE is not decoded: readStructBegin takes
\* <dict> as the third tag to discard, fails with INVALID_DATA on what
\* follows it, pushes no context, and no field is read.
C19_NoDoctype ==
  /\ (LacksDoctype /\ Reading) => rix <= 1 /\ phase # "done"
  /\ (LacksDoctype /\ Reading /\ rix = 1) =>
       /\ rd.exc = "INVALID_DATA"
       /\ rd.contexts_ = <<>> /\ rd.context_ = TPlistContext
       /\ rd.name = <<>>
       /\ wire = NoDoctype \o kPlistObjectStart \o Rest(rd)
       /\ ~StartsWith(Strip(Rest(rd)), kPlistObjectStart)

\* The document of a struct with a field, without its DOCTYPE, has made
\* readStructBegin fail.
C19_Witness ==
  /\ LacksDoctype
  /\ phase = "read" /\ rix = 1
  /\ calls[2].op = "writeFieldBegin"
  /\ rd.exc = "INVALID_DATA"

\* The document read does not have, at place q, the tag that the document
\* written has there.
Differs(q) ==
  LET tag == TagAt(wr.out, q)
  IN IF q + Len(tag) - 1 > Len(wire) THEN TRUE
     ELSE SubSeq(wire, q, q + Len(tag) - 1) # tag

\* The place at which the tag that was replaced started: the first tag of
\* the document written that the document read does not have.
SwapAt ==
  LET places == {q \in 1..Len(wr.out) : wr.out[q] = kPlistOpenTag}
  IN CHOOSE q \in places :
       Differs(q) /\ \A r \in places : r < q => ~Differs(r)

\* The </dict> of a struct has been replaced by <key>: readFieldBegin, which
\* looks for </dict> and otherwise reads a key, expects no fixed tag there.
KeyForStop ==
  /\ TagAt(wr.out, SwapAt) = kPlistObjectEnd
  /\ StartsWith(Strip(SubSeq(wire, SwapAt, Len(wire))), kPlistKeyStart)
  /\ \E i \in 1..Len(calls) :
        calls[i].op = "writeStructEnd" /\ calls[i].at < SwapAt
          /\ SwapAt <= calls[i].at + 2

\* The </real> of a double has been replaced by a text that starts with a
\* space or a newline: readPlistDouble takes every byte up to the next '<'
\* as the number, and fails on it before it looks for </real>.
SpaceInReal ==
  /\ TagAt(wr.out, SwapAt) = kPlistRealEnd
  /\ wire[SwapAt] \in {kPlistSpace, kPlistNewline}

\* C20: a read that expects one of the fifteen fixed tags skips spaces and
\* newlines and consumes exactly the tag when it is there; when the bytes
\* there are another text (another tag, an element the codec does not
\* know) the read fails with INVALID_DATA, everything before that text
\* consumed and nothing of it, and the document is not decoded; it fails
\* with INVALID_DATA too when the document ends in a text shorter than
\* the tag.
C20_FixedTags ==
  /\ (Reading /\ edits = 0) =>
       /\ Ok(rd)
       /\ Strip(Rest(rd)) =
            Strip(SubSeq(wire,
                         (IF rix < Len(calls) THEN calls[rix + 1].at ELSE Len(wire)) + 1,
                         Len(wire)))
  /\ (Reading /\ edits = 1) =>
       LET left == Strip(SubSeq(wire, SwapAt, Len(wire)))
           tag == TagAt(wr.out, SwapAt)
       IN /\ tag \in FixedTags
          /\ ~StartsWith(left, tag)
          /\ phase # "done"
          /\ ~KeyForStop /\ ~SpaceInReal =>
                /\ Ok(rd) => Len(Rest(rd)) >= Len(left)
                /\ ~Ok(rd) =>
                      /\ rd.exc = "INVALID_DATA"
                      /\ Len(left) >= Len(tag) => Rest(rd) = left

\* In a list, <date> stands where the <string> of the first element was:
\* readListBegin succeeded and readString failed with the text unread.
C20_Witness ==
  /\ phase = "read" /\ edits = 1
  /\ rix = 2
  /\ calls[1].op = "writeListBegin"
  /\ calls[2].op = "writeString"
  /\ TagAt(wr.out, SwapAt) = kPlistStringStart
  /\ rd.exc = "INVALID_DATA"
  /\ StartsWith(Rest(rd), <<"<","d","a","t","e",">">>)
  /\ Len(rd.contexts_) = 1

NotSpace(ch) == ch \notin {kPlistSpace, kPlistNewline}

\* C21: readBool reads up to and including the next '>', drops the spaces
\* and newlines, and hands back true for <true/>, false for <false/> and
\* INVALID_DATA for every other text; it hands back what writeBool wrote.
C21_ReadBool ==
  (Reading /\ rix = 1 /\ calls[1].op = "writeBool") =>
    LET k == FirstClose(wire)
        text == SelectSeq(SubSeq(wire, 1, k), NotSpace)
    IN /\ k = 0 => rd.exc = "END_OF_FILE"
       /\ k > 0 =>
            /\ Rest(rd) = SubSeq(wire, k + 1, Len(wire))
            /\ rd.ret = k
            /\ text = kPlistStringTrue => Ok(rd) /\ rd.val = TRUE
            /\ text = kPlistStringFalse => Ok(rd) /\ rd.val = FALSE
            /\ text \notin {kPlistStringTrue, kPlistStringFalse} =>
                 rd.exc = "INVALID_DATA"
       /\ edits = 0 => Ok(rd) /\ rd.val = calls[1].arg

\* <false/> with its 's' replaced has been refused, with the tag that
\* follows it unread.
C21_Witness ==
  /\ phase = "read" /\ rix = 1 /\ edits = 1
  /\ wire = <<"<","f","a","l","x","e","/",">","<","a",">">>
  /\ rd.exc = "INVALID_DATA"
  /\ Rest(rd) = <<"<","a",">">>

\* The type the read call mirroring the write call op converts to.
IntType(op) ==
  CASE op = "writeByte" -> "int16_t"
    [] op = "writeI16" -> "int16_t"
    [] op = "writeI32" -> "int32_t"
    [] op = "writeI64" -> "int64_t"

IntOps == {"writeByte", "writeI16", "writeI32", "writeI64"}

\* The longest run of characters of [-+0-9.Ee] that w has from place i on.
RunFrom(w, i) ==
  LET n == CHOOSE k \in 0..(Len(w) - i + 1) :
             /\ \A j \in i..(i + k - 1) : isPlistNumeric(w[j])
             /\ (i + k <= Len(w) => ~isPlistNumeric(w[i + k]))
  IN SubSeq(w, i, i + n - 1)

\* The run of the document's integer element.
Run == RunFrom(wire, Len(kPlistIntegerStart) + 1)

\* The digits d without their leading zeros (one zero is kept).
RECURSIVE StripZeros(_)
StripZeros(d) ==
  IF Len(d) > 1 /\ d[1] = "0" THEN StripZeros(Tail(d)) ELSE d

\* The number of the digits a is at most the number of the digits b, neither
\* with leading zeros.
LeqDigits(a, b) ==
  \/ Len(a) < Len(b)
  \/ /\ Len(a) = Len(b)
     /\ \/ a = b
        \/ LET i == CHOOSE k \in 1..Len(a) :
                      a[k] # b[k] /\ \A j \in 1..(k - 1) : a[j] = b[j]
           IN DigitVal(a[i]) < DigitVal(b[i])

\* The digits of the largest magnitude of the type named, below zero when neg.
Limit(type, neg) ==
  CASE type = "int16_t" ->
         <<"3","2","7","6">> \o (IF neg THEN <<"8">> ELSE <<"7">>)
    [] type = "int32_t" ->
         <<"2","1","4","7","4","8","3","6","4">> \o (IF neg THEN <<"8">> ELSE <<"7">>)
    [] type = "int64_t" ->
         <<"9","2","2","3","3","7","2","0","3","6","8","5","4","7","7","5","8","0">>
           \o (IF neg THEN <<"8">> ELSE <<"7">>)

\* The text run is a decimal number of the type named: an optional sign,
\* one digit or more, and a value within the type's range.
Converts(run, type) ==
  LET body == IF Sign(run) = "" THEN run ELSE Tail(run)
  IN /\ Len(body) > 0
     /\ \A j \in 1..Len(body) : DigitVal(body[j]) < 10
     /\ LeqDigits(StripZeros(body), Limit(type, Sign(run) = "-"))

\* The number that the digits d spell.
RECURSIVE NumOf(_)
NumOf(d) ==
  IF d = <<>> THEN 0
  ELSE 10 * NumOf(SubSeq(d, 1, Len(d) - 1)) + DigitVal(d[Len(d)])

\* The value of a text that converts to 16 bits.
ValueOf(run) ==
  IF Sign(run) = "-" THEN 0 - NumOf(Tail(run))
  ELSE IF Sign(run) = "+" THEN NumOf(Tail(run))
  ELSE NumOf(run)

\* C22: an integer read whose run of characters of [-+0-9.Ee] after
\* <integer> does not convert to the type read (no digit, 1.5, 1e3, --1, a
\* value out of the type's range) fails with the protocol error
\* INVALID_DATA, thrown as the codec's other protocol errors are, and hands
\* back no value.
C22_Stated ==
  (Reading /\ rix = 1 /\ calls[1].op \in IntOps /\
     ~Converts(Run, IntType(calls[1].op))) =>
    rd.exc = "INVALID_DATA"

\* readI32 has read <integer>1.5</integer> and a pointer to an exception
\* is in flight.
C22_Witness ==
  /\ Reading /\ rix = 1
  /\ calls[1].op = "writeI32"
  /\ wire = kPlistIntegerStart \o <<"1", ".", "5">> \o kPlistIntegerEnd
  /\ rd.exc = "new INVALID_DATA"

\* What holds of the integer reads: a text that does not convert ends the
\* read with the pointer thrown by the handler of readPlistInteger, and a
\* text that converts and is followed by </integer> is read without an
\* error by the reads of 16, 32 and 64 bits.
C22_Thrown ==
  (Reading /\ rix = 1 /\ calls[1].op \in IntOps) =>
    /\ ~Converts(Run, IntType(calls[1].op)) => rd.exc = "new INVALID_DATA"
    /\ (Converts(Run, IntType(calls[1].op)) /\ calls[1].op # "writeByte"
          /\ wire = kPlistIntegerStart \o Run \o kPlistIntegerEnd) => Ok(rd)

\* C23: readByte reads the number as a value v of 16 bits and fails with
\* the assertion exactly when v >= 256; every other v, those of 128..255
\* and those under -128 among them, comes back narrowed to 8 bits (v modulo
\* 2^8, taken as signed) without an error.
C23_ReadByte ==
  (Reading /\ rix = 1 /\ calls[1].op = "writeByte" /\ Converts(Run, "int16_t")
     /\ wire = kPlistIntegerStart \o Run \o kPlistIntegerEnd) =>
    LET v == ValueOf(Run)
    IN /\ rd.exc = "ASSERTION" <=> v >= 256
       /\ v < 256 =>
            /\ Ok(rd)
            /\ rd.val \in -128..127
            /\ (rd.val - v) % 256 = 0

\* readByte has read 255 as -1, and -129 as 127.
C23_Witness ==
  /\ Reading /\ rix = 1
  /\ calls[1].op = "writeByte"
  /\ Ok(rd)
  /\ \/ Run = <<"2", "5", "5">> /\ rd.val = -1
     \/ Run = <<"-", "1", "2", "9">> /\ rd.val = 127

\* The five characters that have an entity.
EntityChars == {"\"", "'", "<", ">", "&"}

\* The entity character whose entity t has at place i, "" where t has none.
EntityAt(t, i) ==
  IF \E c \in EntityChars :
       i + Len(Entity(c)) - 1 <= Len(t)
         /\ SubSeq(t, i, i + Len(Entity(c)) - 1) = Entity(c)
  THEN CHOOSE c \in EntityChars :
         i + Len(Entity(c)) - 1 <= Len(t)
           /\ SubSeq(t, i, i + Len(Entity(c)) - 1) = Entity(c)
  ELSE ""

\* The text t from place i on with every entity as its character; an
\* ampersand that begins no entity is kept when amp and left out otherwise.
RECURSIVE Unescaped(_, _, _)
Unescaped(t, i, amp) ==
  IF i > Len(t) THEN <<>>
  ELSE IF EntityAt(t, i) # ""
  THEN <<EntityAt(t, i)>> \o Unescaped(t, i + Len(Entity(EntityAt(t, i))), amp)
  ELSE IF t[i] = "&" /\ ~amp THEN Unescaped(t, i + 1, amp)
  ELSE <<t[i]>> \o Unescaped(t, i + 1, amp)

\* The text between <string> and </string> of a document that is one string
\* element.
RawText ==
  SubSeq(wire, Len(kPlistStringStart) + 1, Len(wire) - Len(kPlistStringEnd))

\* C24: readString hands back every character between <string> and the
\* next '<' as it is, except the five entities, which it hands back as
\* their characters; an ampersand that begins none of the five entities
\* (a&b, &foo;) is handed back as '&'.
C24_Stated ==
  (Reading /\ rix = 1 /\ calls[1].op = "writeString" /\ edits = 1) =>
    Ok(rd) /\ rd.val = Unescaped(RawText, 1, TRUE)

\* readString has read <string>a&b</string> as ab.
C24_Witness ==
  /\ Reading /\ rix = 1
  /\ calls[1].op = "writeString"
  /\ RawText = <<"a", "&", "b">>
  /\ rd.val = <<"a", "b">>

\* What holds of readString: the entities come back as their characters,
\* an ampersand that begins no entity is left out, and every other
\* character comes back as it is.
C24_Dropped ==
  (Reading /\ rix = 1 /\ calls[1].op = "writeString" /\ edits = 1) =>
    Ok(rd) /\ rd.val = Unescaped(RawText, 1, FALSE)

\* The key str as readPlistKey hands it back: '-' as '_'.
Underscored(str) == [i \in 1..Len(str) |-> IF str[i] = "-" THEN "_" ELSE str[i]]

\* The key str as writePlistKey passes it on: '_' as '-'.
Dashed(str) == [i \in 1..Len(str) |-> IF str[i] = "_" THEN "-" ELSE str[i]]

Made == calls'[Len(calls')]

ReaderStep == phase = "reader" /\ Len(calls') = Len(calls) + 1

\* A call on the reader that has not written past the end of its block.
FitsStep == ReaderStep /\ rd'.exc # "HEAP_OVERFLOW"

\* The first n elements of s.
Prefix(s, n) == SubSeq(s, 1, n)

\* s without its first n elements.
Drop(s, n) == SubSeq(s, n + 1, Len(s))

\* What a call on a reader that has the bytes the call needs does: peek()
\* and peek(n) hand back the next byte and exactly the next n bytes and
\* leave them where they are, read() takes the first byte off (from the
\* buffer before the source), consume(n) takes the first n bytes off.
Intact ==
  LET s == Rest(rd)
      t == Rest(rd')
      n == Made.arg
  IN /\ (Made.op = "read" /\ Len(s) >= 1) =>
          /\ Ok(rd') /\ rd'.ch = Head(s) /\ t = Tail(s)
          /\ rd.buffer_ # <<>> => rd'.in = rd.in
     /\ (Made.op = "peek" /\ Len(s) >= 1) =>
          Ok(rd') /\ rd'.ch = Head(s) /\ t = s
     /\ (Made.op = "peekN" /\ Len(s) >= n) =>
          Ok(rd') /\ rd'.data = Prefix(s, n) /\ t = s
     /\ (Made.op = "consume" /\ Len(s) >= n) =>
          Ok(rd') /\ t = Drop(s, n)
     /\ calls = <<>> => s = wire

\* C26: the bytes of the buffer followed by the unread bytes of the source
\* are at all times the bytes of the source not yet delivered; on a source
\* that has the bytes a call needs, peek() and peek(n) hand back the next
\* byte and exactly the next n bytes and leave them where they are, read()
\* takes the first byte off (from the buffer before the source), and
\* consume(n) takes the first n bytes off, also when some are in the buffer
\* and some in the source.
C26_Stated == [][ReaderStep => Intact]_vars

\* What holds of the reader: the same, of every call that does not write
\* past the end of its block.
C26_Fits == [][FitsStep => Intact]_vars

\* peek(2) on a reader whose buffer is empty has written two bytes into
\* its block of one byte.
C26_Witness ==
  /\ phase = "reader"
  /\ Len(calls) = 1
  /\ calls[1].op = "peekN" /\ calls[1].arg = 2
  /\ rd.exc = "HEAP_OVERFLOW"

\* After peek(), consume(2) has taken one byte from the buffer and one from
\* the source.
C26_Straddle ==
  /\ phase = "reader"
  /\ Len(calls) = 2
  /\ calls[1].op = "peek"
  /\ calls[2].op = "consume" /\ calls[2].arg = 2
  /\ Ok(rd)
  /\ Rest(rd) = Drop(wire, 2)

\* s without the spaces and newlines it starts with.
RECURSIVE Unspaced(_)
Unspaced(s) ==
  IF s # <<>> /\ Head(s) \in {kPlistSpace, kPlistNewline} THEN Unspaced(Tail(s))
  ELSE s

\* C27 as stated: when the source does not have the bytes a call needs,
\* read(), peek(), peek(n) and consume(n) fail with the error of the
\* source, and a token read on a source that ends inside the token fails
\* with that error and not with INVALID_DATA.
C27_Stated ==
  [][FitsStep =>
       LET s == Rest(rd)
           n == Made.arg
       IN /\ (Made.op \in {"read", "peek"} /\ Len(s) = 0) =>
               rd'.exc = "END_OF_FILE"
          /\ (Made.op \in {"peekN", "consume"} /\ Len(s) < n) =>
               rd'.exc = "END_OF_FILE"
          /\ (Made.op = "readSyntaxString" /\ Len(Unspaced(s)) < n
                /\ Unspaced(s) = Prefix(kPlistArrayStart, Len(Unspaced(s)))) =>
               rd'.exc = "END_OF_FILE"]_vars

\* C27: when the source does not have the bytes a call needs, read(),
\* peek() and consume(n) fail with the error of the source; peek(n) does
\* not fail and hands back the empty string, so that a token read on a
\* source that ends inside the token fails with INVALID_DATA, and with the
\* error of the source only when the source ends before the token's first
\* byte.  (A call that writes past the end of its block is left aside.)
C27_ShortRead ==
  [][FitsStep =>
       LET s == Rest(rd)
           n == Made.arg
       IN /\ (Made.op \in {"read", "peek"} /\ Len(s) = 0) =>
               rd'.exc = "END_OF_FILE"
          /\ (Made.op = "consume" /\ Len(s) < n) => rd'.exc = "END_OF_FILE"
          /\ (Made.op = "peekN" /\ Len(s) < n) => Ok(rd') /\ rd'.data = <<>>
          /\ (Made.op = "readSyntaxString" /\ Len(Unspaced(s)) < n) =>
               IF Unspaced(s) = <<>> THEN rd'.exc = "END_OF_FILE"
               ELSE rd'.exc = "INVALID_DATA"]_vars

\* readSyntaxString of <array> on the source " <arr" has ended with
\* INVALID_DATA.
C27_Witness ==
  /\ phase = "reader"
  /\ Len(calls) = 1
  /\ calls[1].op = "readSyntaxString"
  /\ wire = <<kPlistSpace, "<", "a", "r", "r">>
  /\ rd.exc = "INVALID_DATA"

\* The step is the write call op.
Wrote(op) == phase = "write" /\ Len(calls') = Len(calls) + 1 /\ Made.op = op

\* The step is the read call that mirrors the write call op.
ReadOf(op) == phase = "read" /\ rix' = rix + 1 /\ calls[rix'].op = op

WriteCall == phase = "write" /\ Len(calls') = Len(calls) + 1

\* C29: every write call returns the number of bytes it has appended to the
\* output, the separator, the prologue, the tags, the escaped or Base64
\* text and </plist> included.
C29_WriteReturns == [][WriteCall => wr'.ret = Len(wr'.out) - Len(wr.out)]_vars

\* A string with two characters that are escaped has been written after
\* another element of a list: one byte of separator, the two tags and ten
\* bytes of text.
C29_Witness ==
  /\ phase = "write" /\ calls # <<>>
  /\ calls[Len(calls)].op = "writeString"
  /\ calls[Len(calls)].arg = <<"a", "<", "&">>
  /\ calls[Len(calls)].sib
  /\ wr.ret = 28
  /\ Len(wr.out) - calls[Len(calls)].at = 28

\* A step that is a read call.
ReadCall == phase = "read" /\ rix' = rix + 1

\* C30: every read call returns the number of bytes it has consumed from
\* the stream, the skipped spaces and newlines, the skipped prologue, the
\* tags and the text included.
C30_Stated ==
  [][(ReadCall /\ Ok(rd')) => rd'.ret = Len(Rest(rd)) - Len(Rest(rd'))]_vars

\* The bytes that a read call has consumed.
Taken == Len(Rest(rd)) - Len(Rest(rd'))

\* The read call is the readStructBegin of the document's outermost struct.
Outermost == calls[rix'].op = "writeStructBegin" /\ rd.contexts_ = <<>>

\* What holds of the read calls: each returns the number of bytes it has
\* consumed, except the readStructBegin that skips the prologue, which
\* leaves the three '>' that end the skipped tags out of its count.
C30_ReadReturns ==
  [][(ReadCall /\ Ok(rd')) =>
       rd'.ret = IF Outermost THEN Taken - 3 ELSE Taken]_vars

\* The readStructBegin of a document has returned three less than the
\* bytes it has consumed.
C30_Witness ==
  /\ Reading /\ rix = 1
  /\ calls[1].op = "writeStructBegin"
  /\ Ok(rd)
  /\ Len(wire) - Len(Rest(rd)) = Len(kPlistHeader) + Len(kPlistPlistStart)
                                   + Len(kPlistObjectStart)
  /\ rd.ret = Len(wire) - Len(Rest(rd)) - 3

(***************************************************************************)
(* One instance used for reading and writing.  contexts_, context_ and     *)
(* reader_ are single members of TPlistProtocol, so the write calls and    *)
(* the read calls of one instance act on the same stack.  wr is the        *)
(* instance, constructed over a transport that holds the document `wire`   *)
(* for the read calls and collects the bytes of the write calls.  The      *)
(* caller keeps each side well formed on its own: open holds the           *)
(* containers each side has begun and not ended, in the order they were    *)
(* begun; a side may begin a container or pass a value at its top level    *)
(* or inside its list, and ends its innermost container.                   *)
(***************************************************************************)
MaxDx == 5

\* Faulty variant of writeStructBegin: the header is written whatever the
\* stack holds.
writeStructBegin_fresh(P) == writePlistObjectStart(writeStructBegin_header(P))

\* writeStructBegin(name)
writeStructBegin(P) ==
  IF P.contexts_ = <<>>
  THEN writePlistObjectStart(writeStructBegin_header(P))
  ELSE writePlistObjectStart(P)

\* readStructBegin(name)
readStructBegin(P) ==
  IF P.contexts_ = <<>>
  THEN readPlistObjectStart(
         readStructBegin_skip(readStructBegin_skip(readStructBegin_skip(P))))
  ELSE readPlistObjectStart(P)

DxWrites == {"writeStructBegin", "writeStructEnd", "writeListBegin",
             "writeListEnd", "writeBool"}
DxReads == {"readStructBegin", "readStructEnd", "readListBegin",
            "readListEnd", "readBool"}
DxBegins == {"writeStructBegin", "writeListBegin", "readStructBegin",
             "readListBegin"}
DxEnds == {"writeStructEnd", "writeListEnd", "readStructEnd", "readListEnd"}

DxSide(op) == IF op \in DxWrites THEN "w" ELSE "r"
DxOther(s) == IF s = "w" THEN "r" ELSE "w"
DxKind(op) ==
  IF op \in {"writeStructBegin", "writeStructEnd", "readStructBegin",
             "readStructEnd"}
  THEN "struct" ELSE "list"

\* The call `op` of the facade on the instance P; writeBool writes true.
DxApply(op, P) ==
  CASE op = "writeStructBegin" -> writeStructBegin(Enter(P))
    [] op = "writeStructEnd" -> writePlistObjectEnd(Enter(P))
    [] op = "writeListBegin" -> writePlistArrayStart(Enter(P))
    [] op = "writeListEnd" -> writePlistArrayEnd(Enter(P))
    [] op = "writeBool" -> writePlistBool(Enter(P), TRUE)
    [] op = "readStructBegin" -> readStructBegin(Enter(P))
    [] op = "readStructEnd" -> readPlistObjectEnd(Enter(P))
    [] op = "readListBegin" -> SetSize(readPlistArrayStart(Enter(P)))
    [] op = "readListEnd" -> readPlistArrayEnd(Enter(P))
    [] op = "readBool" -> readPlistBool(Enter(P))

\* The documents the read side is given: what the writer makes of an empty
\* struct, a bare dict, a list of a bool and a struct, and an empty list.
DxInputs ==
  { kPlistHeader \o kPlistPlistStart \o kPlistObjectStart \o kPlistObjectEnd
      \o kPlistPlistEnd,
    kPlistObjectStart \o kPlistObjectEnd,
    kPlistArrayStart \o kPlistStringTrue \o kPlistObjectStart
      \o kPlistObjectEnd \o kPlistArrayEnd,
    kPlistArrayStart \o kPlistArrayEnd }

\* The index in open of the innermost container of side s, 0 without one.
DxInner(s) ==
  IF \E i \in DOMAIN open : open[i].side = s
  THEN CHOOSE i \in DOMAIN open :
         /\ open[i].side = s
         /\ \A j \in DOMAIN open : open[j].side = s => j <= i
  ELSE 0

\* open without its i-th container.
DxRemove(i) == SubSeq(open, 1, i - 1) \o SubSeq(open, i + 1, Len(open))

\* open after one more token in its last container.
DxCounted ==
  IF open = <<>> THEN open
  ELSE [open EXCEPT ![Len(open)].n = @ + 1]

StartDuplex ==
  /\ phase = "duplex"
  /\ wire \in DxInputs
  /\ wr = NewProtocol(wire)
  /\ rd = NewProtocol(<<>>)
  /\ calls = <<>>
  /\ open = <<>>
  /\ rix = 0
  /\ budget = MaxDx
  /\ edits = 0

\* One call of either side.  calls records the call and whether the other
\* side had a container open when it was made, edits counts those calls,
\* rix counts the ends of a container that was not the last one begun.
DxCall(op) ==
  LET s == DxSide(op)
      i == DxInner(s)
      mixed == DxInner(DxOther(s)) > 0
  IN /\ phase = "duplex"
     /\ budget > 0
     /\ Ok(wr)
     /\ ~wr.ub
     /\ IF i = 0 THEN op \notin DxEnds
        ELSE IF op \in DxEnds THEN open[i].kind = DxKind(op)
        ELSE open[i].kind = "list"
     /\ wr' = DxApply(op, wr)
     /\ calls' = Append(calls, [op |-> op, arg |-> mixed])
     /\ open' = IF ~Ok(wr') THEN open
                ELSE IF op \in DxEnds THEN DxRemove(i)
                ELSE IF op \in DxBegins
                THEN Append(DxCounted, [side |-> s, kind |-> DxKind(op), n |-> 0])
                ELSE DxCounted
     /\ rix' = IF op \in DxEnds /\ i < Len(open) THEN rix + 1 ELSE rix
     /\ edits' = IF mixed THEN edits + 1 ELSE edits
     /\ budget' = budget - 1
     /\ UNCHANGED <<rd, wire, phase>>

DxWrite == \E op \in DxWrites : DxCall(op)

DxRead == \E op \in DxReads : DxCall(op)

NextDuplex == DxWrite \/ DxRead

SpecDuplex == StartDuplex /\ [][NextDuplex]_vars

\* The step is the call op on the instance that reads and writes.
DxStep(op) == phase = "duplex" /\ Len(calls') = Len(calls) + 1 /\ Made.op = op

\* The bytes the step has appended to the output.
DxOut == Drop(wr'.out, Len(wr.out))

\* The instance after the calls of side s among the first i calls, made in
\* their order on the instance P.
RECURSIVE DxReplay(_, _, _)
DxReplay(s, i, P) ==
  IF i = 0 THEN P
  ELSE IF DxSide(calls[i].op) = s
  THEN CHOOSE R \in {DxApply(calls[i].op, Q) : Q \in {DxReplay(s, i - 1, P)}} : TRUE
  ELSE DxReplay(s, i - 1, P)

\* The output is what the write calls alone produce on an instance of their
\* own, and the input left is what the read calls alone leave of the
\* document on an instance of their own.
DxAlone ==
  /\ wr.out = DxReplay("w", Len(calls), NewProtocol(<<>>)).out
  /\ Rest(wr) = Rest(DxReplay("r", Len(calls), NewProtocol(wire)))
  /\ wr.exc = DxReplay("r", Len(calls), NewProtocol(wire)).exc

\* The last container begun and not ended.
DxTop == open[Len(open)]

\* C31: the read calls and the write calls of one instance act on one stack
\* of contexts.  A writeStructBegin made while a container of the read side
\* is open appends <dict>, after a separator at most, and no prologue, and
\* a writeStructEnd made then appends </dict> and no </plist>; a
\* readStructBegin made while a container of the write side is open skips
\* no prolog: it consumes <dict> after white space, or fails when that tag
\* is not next; a value
\* written into a container that the read side has opened is preceded by a
\* separator exactly when a token has passed through that container,
\* whichever side it was of; and when no call was made while the other
\* side had a container open, output and input left are those of each
\* side's calls made alone.
C31_SharedStack ==
  [][/\ (DxStep("writeStructBegin") /\ Made.arg) =>
          DxOut \in {kPlistObjectStart, <<kPlistElemSeparator>> \o kPlistObjectStart}
     /\ (DxStep("writeStructEnd") /\ Made.arg) =>
          DxOut \in {kPlistObjectEnd, <<kPlistElemSeparator>> \o kPlistObjectEnd}
     /\ (DxStep("readStructBegin") /\ Made.arg) =>
          IF Ok(wr')
          THEN Unspaced(Rest(wr)) = kPlistObjectStart \o Rest(wr')
          ELSE IF Len(Unspaced(Rest(wr))) < Len(kPlistObjectStart)
          THEN wr'.exc \in {"END_OF_FILE", "INVALID_DATA"}
          ELSE /\ wr'.exc = "INVALID_DATA"
               /\ Prefix(Unspaced(Rest(wr)), Len(kPlistObjectStart))
                    # kPlistObjectStart
     /\ (DxStep("writeBool") /\ rix = 0 /\ Made.arg) =>
          IF DxTop.side = "r"
          THEN DxOut = (IF DxTop.n > 0 THEN <<kPlistElemSeparator>> ELSE <<>>)
                         \o kPlistStringTrue
          ELSE TRUE
    ]_vars
  /\ [](phase = "duplex" /\ edits = 0 => DxAlone)

\* A list begun and a bool read on the read side, then a bool and an empty
\* struct written: each written token follows a separator, and neither the
\* prologue nor </plist> is written.
C31_Witness ==
  /\ phase = "duplex"
  /\ [i \in DOMAIN calls |-> calls[i].op]
       = <<"readListBegin", "readBool", "writeBool", "writeStructBegin",
           "writeStructEnd">>
  /\ wr.out = <<kPlistElemSeparator>> \o kPlistStringTrue
                \o <<kPlistElemSeparator>> \o kPlistObjectStart \o kPlistObjectEnd
  /\ wr.out # DxReplay("w", Len(calls), NewProtocol(<<>>)).out

\* A readStructBegin made on the writer's document while a list of the
\* write side is open: the prologue is not skipped and the call fails.
C31_ReadWitness ==
  /\ phase = "duplex"
  /\ [i \in DOMAIN calls |-> calls[i].op] = <<"writeListBegin", "readStructBegin">>
  /\ wr.exc = "INVALID_DATA"
  /\ wire = kPlistHeader \o kPlistPlistStart \o kPlistObjectStart
              \o kPlistObjectEnd \o kPlistPlistEnd

(***************************************************************************)
(* A specification of the container tags: structs, lists and sets are      *)
(* written, one fixed tag of the document may be replaced by another text  *)
(* or left out, and the document is read.                                  *)
(***************************************************************************)
NestVals == 3

\* Texts put in the place of a tag: none, an element that is not of the
\* subset, a tag after a space and a newline, and two fixed tags.
NestTexts ==
  {<<>>,
   <<"<","d","a","t","e",">">>,
   <<kPlistSpace, kPlistNewline>> \o kPlistArrayEnd,
   kPlistObjectEnd,
   kPlistArrayStart}

NextNest ==
  \/ WriteStructBegin
  \/ WriteStructEnd
  \/ \E name \in FieldNames : WriteFieldBegin(name)
  \/ WriteFieldEnd
  \/ WriteFieldStop
  \/ WriteListBegin
  \/ WriteListEnd
  \/ WriteSetBegin
  \/ WriteSetEnd
  \/ \E v \in BoolVals : WriteBool(v)
  \/ Finish
  \/ phase = "wire" /\ \E q \in 1..Len(wire), t \in NestTexts : SwapTag(q, t)
  \/ StartRead
  \/ ReadStructBegin \/ ReadStructEnd
  \/ ReadFieldBegin \/ ReadFieldEnd
  \/ ReadListBegin \/ ReadListEnd
  \/ ReadSetBegin \/ ReadSetEnd
  \/ ReadBool

SpecNest == Start(NestVals) /\ [][NextNest]_vars

\* The read calls of containers that read one tag, or </dict> and </plist>.
NestOps ==
  {"writeStructBegin", "writeStructEnd", "writeListBegin", "writeListEnd",
   "writeSetBegin", "writeSetEnd"}

\* The step is a read call of a container that fails with INVALID_DATA.
NestFails ==
  /\ ReadCall
  /\ calls[rix'].op \in NestOps
  /\ rd'.exc = "INVALID_DATA"

\* The failed call is the readStructEnd of the outermost struct, </dict> is
\* next and what follows it is not </plist>.
NestPlist ==
  /\ calls[rix'].op = "writeStructEnd"
  /\ Len(rd.contexts_) = 1
  /\ Len(Unspaced(Rest(rd))) >= Len(kPlistObjectEnd)
  /\ Prefix(Unspaced(Rest(rd)), Len(kPlistObjectEnd)) = kPlistObjectEnd

\* The tag whose absence makes the call fail.
NestTag ==
  IF calls[rix'].op = "writeStructBegin" THEN kPlistObjectStart
  ELSE IF calls[rix'].op \in {"writeListBegin", "writeSetBegin"} THEN kPlistArrayStart
  ELSE IF calls[rix'].op \in {"writeListEnd", "writeSetEnd"} THEN kPlistArrayEnd
  ELSE IF NestPlist THEN kPlistPlistEnd
  ELSE kPlistObjectEnd

\* The input from the place where the missing tag is looked for: behind the
\* three skipped tags for the outermost readStructBegin, behind </dict> for
\* a missing </plist>, behind white space in each case.
NestFrom ==
  IF calls[rix'].op = "writeStructBegin" /\ rd.contexts_ = <<>>
  THEN Unspaced(Rest(readStructBegin_skip(
                       readStructBegin_skip(readStructBegin_skip(rd)))))
  ELSE IF NestPlist
  THEN Unspaced(Drop(Unspaced(Rest(rd)), Len(kPlistObjectEnd)))
  ELSE Unspaced(Rest(rd))

\* C33 as stated: a container read that fails with INVALID_DATA on its tag
\* leaves the stack of contexts of the depth it had, and the bytes that do
\* not match, from the first that is not white space, are not consumed.
C33_Stated ==
  [][NestFails =>
       /\ Len(rd'.contexts_) = Len(rd.contexts_)
       /\ Rest(rd') = NestFrom]_vars

\* C33: a container read that fails with INVALID_DATA because <dict>,
\* <array>, </dict> or </array> is not next leaves the stack of contexts of
\* the depth it had; a readStructEnd of the outermost struct that fails
\* because </plist> is not next has consumed </dict> and popped, so the
\* depth is one less.  The bytes that do not match, from the first that is
\* not white space, are not consumed when they are as many as the tag is
\* long; of fewer bytes those that were not yet in the reader's buffer are
\* taken from the source and lost.
C33_FailedTag ==
  [][NestFails =>
       /\ Len(rd'.contexts_) = Len(rd.contexts_) - (IF NestPlist THEN 1 ELSE 0)
       /\ NestFrom # <<>>
       /\ IF Len(NestFrom) >= Len(NestTag)
          THEN Rest(rd') = NestFrom /\ Prefix(NestFrom, Len(NestTag)) # NestTag
          ELSE /\ rd'.in = <<>>
               /\ rd'.buffer_ # <<>>
               /\ Len(rd'.buffer_) <= Len(NestFrom)
               /\ rd'.buffer_ = Prefix(NestFrom, Len(rd'.buffer_))]_vars

\* The outermost readStructEnd has failed on a document whose </plist> was
\* replaced: </dict> is consumed and the stack is empty.
C33_Witness ==
  /\ phase = "read"
  /\ rd.exc = "INVALID_DATA"
  /\ calls[rix].op = "writeStructEnd"
  /\ rd.contexts_ = <<>>
  /\ Rest(rd) = kPlistArrayEnd
  /\ edits = 1

\* A readListBegin has failed on <date>: the stack holds what it held and
\* <date> is the next input.
C33_KeptWitness ==
  /\ phase = "read"
  /\ rd.exc = "INVALID_DATA"
  /\ calls[rix].op = "writeListBegin"
  /\ Len(rd.contexts_) = calls[rix].d
  /\ Prefix(Rest(rd) \o <<"?","?","?","?","?","?">>, 6) = <<"<","d","a","t","e",">">>

(***************************************************************************)
(* The loops of the reader, one iteration at a step.  A loop is begun on   *)
(* a reader over the bytes of `wire`, each step runs the test and the body *)
(* of the loop once as the source does, and the loop ends by leaving       *)
(* (break, or the test failing) or by an exception.  open holds the loop   *)
(* in progress, its counter (the tags still to skip, the bytes of an       *)
(* entity still to read) and the codec as it was when the loop began;      *)
(* calls holds the loops that have ended and how.                          *)
(***************************************************************************)
MaxLoopLen == 3
MaxLoops == 2

LoopAlphabet == {kPlistSpace, kPlistOpenTag, kPlistCloseTag, "&", "1", "a"}

\* Texts with an entity, whole and cut short.
LoopEntities ==
  {<<"&","l","t",";","<">>, <<"&","a","m","p",";">>,
   <<"&","q","u","o","t",";","a">>, <<"&","g","t">>}

LoopInputs ==
  UNION {[1..n -> LoopAlphabet] : n \in 0..MaxLoopLen} \cup LoopEntities

\* whitespace skipping, the skips of three tags, the scan up to '<' of
\* readPlistBinary, readPlistKey and readPlistDouble, the scan of
\* readPlistString, the scan of readPlistBool, the numeric run.
Loops == {"space", "prolog", "scan", "string", "bool", "numeric"}

\* The loop is left with the codec P.
LoopEnd(P) == [P |-> P, loop |-> "", n |-> 0]

\* The loop l goes on with the codec P and the counter n.
LoopGo(P, l, n) == [P |-> P, loop |-> l, n |-> n]

\* Faulty variant of the iteration of readPlistNumericChars: the byte is
\* looked at and not read.
readPlistNumericChars_iter_peek(P) ==
  LET Q == reader_peek(P)
  IN IF ~Ok(Q) \/ ~isPlistNumeric(Q.ch) THEN LoopEnd(Q)
     ELSE LoopGo(Q, "numeric", 0)

\* One iteration of the while (true) of readPlistNumericChars:
\* ch = reader_.peek(); if (!isPlistNumeric(ch)) break; reader_.read();
\* str += ch; ++result;
readPlistNumericChars_iter(P) ==
  LET Q == reader_peek(P)
  IN IF ~Ok(Q) \/ ~isPlistNumeric(Q.ch) THEN LoopEnd(Q)
     ELSE LoopGo(Add([reader_read(Q) EXCEPT !.val = Append(@, Q.ch)], 1),
                 "numeric", 0)

\* What precedes the loop l in its function.
LoopBegin(l, P) ==
  CASE l = "space" -> reader_peek(Enter(P))      \* uint8_t ch2 = reader.peek();
    [] l = "prolog" -> Enter(P)                  \* uint32_t result = 0;
    [] OTHER -> Clear(Enter(P))                  \* str.clear();  str = "";

\* The length of the entity that the three peeks of readPlistString have
\* found, 1 when they have found none.
LoopEscape(P) ==
  CASE P.s4 = <<"&","l","t",";">> -> 4
    [] P.s4 = <<"&","g","t",";">> -> 4
    [] P.s5 = <<"&","a","m","p",";">> -> 5
    [] P.s6 = <<"&","a","p","o","s",";">> -> 6
    [] P.s6 = <<"&","q","u","o","t",";">> -> 6
    [] OTHER -> 1

\* The character that the entity stands for, none when there is no entity.
LoopEntity(P) ==
  CASE P.s4 = <<"&","l","t",";">> -> <<"<">>
    [] P.s4 = <<"&","g","t",";">> -> <<">">>
    [] P.s5 = <<"&","a","m","p",";">> -> <<"&">>
    [] P.s6 = <<"&","a","p","o","s",";">> -> <<"'">>
    [] P.s6 = <<"&","q","u","o","t",";">> -> <<"\"">>
    [] OTHER -> <<>>

\* std::string s = reader_.peek(n), kept as s4, s5 or s6; the codec P is
\* evaluated once.
LoopPeek(P, n) == CHOOSE R \in {Keep(reader_peekN(Q, n), n) : Q \in {P}} : TRUE

\* One iteration of the loop l on the codec P with the counter n.
LoopIterate(l, P, n) ==
  CASE l = "space" ->
         \* while (ch2 == kPlistSpace || ch2 == kPlistNewline)
         \*   { reader.read(); result++; ch2 = reader.peek(); }
         IF ~IsSpace(P.ch) THEN LoopEnd(P)
         ELSE LET Q == reader_peek(Add(reader_read(P), 1))
              IN IF Ok(Q) THEN LoopGo(Q, "space", 0) ELSE LoopEnd(Q)
    [] l = "prolog" ->
         \* while ((ch = reader_.read()) != kPlistCloseTag) result++;
         \* three times, n the loops not yet left
         LET Q == reader_read(P)
         IN IF ~Ok(Q) THEN LoopEnd(Q)
            ELSE IF Q.ch # kPlistCloseTag THEN LoopGo(Add(Q, 1), "prolog", n)
            ELSE IF n = 1 THEN LoopEnd(Q)
            ELSE LoopGo(Q, "prolog", n - 1)
    [] l = "scan" ->
         \* ch = reader_.peek(); if (ch == kPlistOpenTag) break;
         \* str += ch; ++result; reader_.read();
         LET Q == reader_peek(P)
         IN IF ~Ok(Q) \/ Q.ch = kPlistOpenTag THEN LoopEnd(Q)
            ELSE LoopGo(reader_read(Add([Q EXCEPT !.val = Append(@, Q.ch)], 1)),
                        "scan", 0)
    [] l = "string" ->
         \* ch = reader_.peek(); if (ch == kPlistOpenTag) break;
         \* if (ch == '&') { the three peeks, str += the character, escape }
         \* else { str += ch; ++result; reader_.read(); }
         LET Q == reader_peek(P)
             R == LoopPeek(LoopPeek(LoopPeek(Q, 4), 5), 6)
         IN IF ~Ok(Q) \/ Q.ch = kPlistOpenTag THEN LoopEnd(Q)
            ELSE IF Q.ch = "&"
            THEN LoopGo([R EXCEPT !.val = @ \o LoopEntity(R)], "escape",
                        LoopEscape(R))
            ELSE LoopGo(reader_read(Add([Q EXCEPT !.val = Append(@, Q.ch)], 1)),
                        "string", 0)
    [] l = "escape" ->
         \* while (escape--) { ++result; reader_.read(); }
         \* and, left, the while (true) around it goes on
         LET Q == reader_read(Add(P, 1))
         IN IF ~Ok(Q) THEN LoopEnd(Q)
            ELSE IF n = 1 THEN LoopGo(Q, "string", 0)
            ELSE LoopGo(Q, "escape", n - 1)
    [] l = "bool" ->
         \* ch = reader_.read(); ++result; if (space) continue;
         \* str += ch; if (ch == kPlistCloseTag) break;
         LET Q == Add(reader_read(P), 1)
         IN IF ~Ok(Q) THEN LoopEnd(Q)
            ELSE IF IsSpace(Q.ch) THEN LoopGo(Q, "bool", 0)
            ELSE IF Q.ch = kPlistCloseTag
            THEN LoopEnd([Q EXCEPT !.val = Append(@, Q.ch)])
            ELSE LoopGo([Q EXCEPT !.val = Append(@, Q.ch)], "bool", 0)
    [] l = "numeric" -> readPlistNumericChars_iter(P)

\* The iteration of readPlistString at a '&' calls peek(4), peek(5) and
\* peek(6), whose block of one byte a read of more bytes overruns: the
\* iteration goes on as written, or the process is lost.
LoopOutcomes(l, P, n) ==
  IF l = "string" /\ Ok(reader_peek(P)) /\ reader_peek(P).ch = "&"
     /\ Written(reader_peek(P), 4) + Written(reader_peek(P), 5)
          + Written(reader_peek(P), 6) > 1
  THEN {LoopIterate(l, P, n), LoopEnd(Throw(reader_peek(P), "HEAP_OVERFLOW"))}
  ELSE {LoopIterate(l, P, n)}

StartLoop ==
  /\ phase = "loop"
  /\ wire \in LoopInputs
  /\ rd = NewProtocol(wire)
  /\ wr = NewProtocol(<<>>)
  /\ calls = <<>>
  /\ open = <<>>
  /\ rix = 0
  /\ budget = MaxLoops
  /\ edits = 0

\* A read operation comes to its loop l.
LoopEnter(l) ==
  /\ phase = "loop"
  /\ open = <<>>
  /\ budget > 0
  /\ Ok(rd)
  /\ rd' = LoopBegin(l, rd)
  /\ open' = <<[loop |-> l, n |-> IF l = "prolog" THEN 3 ELSE 0, from |-> rd]>>
  /\ budget' = budget - 1
  /\ UNCHANGED <<wr, wire, calls, phase, rix, edits>>

\* The loop in progress runs once more; an exception raised before the
\* loop or in it ends the loop.
LoopIter ==
  /\ phase = "loop"
  /\ open # <<>>
  /\ \E r \in IF Ok(rd) THEN LoopOutcomes(open[1].loop, rd, open[1].n)
              ELSE {LoopEnd(rd)} :
       /\ rd' = r.P
       /\ IF r.loop = ""
          THEN /\ open' = <<>>
               /\ calls' = Append(calls, [op |-> open[1].loop,
                                          arg |-> open[1].from])
          ELSE /\ open' = <<[open[1] EXCEPT !.loop = r.loop, !.n = r.n]>>
               /\ UNCHANGED calls
  /\ UNCHANGED <<wr, wire, phase, rix, budget, edits>>

NextLoop == (\E l \in Loops : LoopEnter(l)) \/ LoopIter

SpecLoop == StartLoop /\ [][NextLoop]_vars

\* A read operation that has come to a loop goes on running.
SpecLoopFair == SpecLoop /\ WF_vars(LoopIter)

\* What the operations of the codec make of the loop l on the codec P: the
\* loop as a whole, as the read calls of the other specifications run it.
LoopWhole(l, P) ==
  CASE l = "space" -> readSyntaxString_loop(reader_peek(Enter(P)))
    [] l = "prolog" ->
         readStructBegin_skip(readStructBegin_skip(readStructBegin_skip(Enter(P))))
    [] l = "scan" -> readPlistBinary_loop(reader_peek(Clear(Enter(P))))
    [] l \in {"string", "escape"} -> readPlistString_loop(reader_peek(Clear(Enter(P))))
    [] l = "bool" -> readPlistBool_loop(Clear(Enter(P)))
    [] l = "numeric" -> readPlistNumericChars(Enter(P))

\* P and Q have the same input left, exception, result and text.
LoopSame(P, Q) ==
  /\ P.buffer_ = Q.buffer_
  /\ P.in = Q.in
  /\ P.exc = Q.exc
  /\ P.ret = Q.ret
  /\ P.val = Q.val

\* What holds of one iteration.  An iteration after which the loop goes on
\* has consumed exactly the next byte; the one exception is the iteration
\* of readPlistString at a '&', which hands the 1, 4, 5 or 6 bytes of
\* escape to the loop inside it, whose iterations consume one byte each.
\* An iteration that leaves the loop has consumed one byte at most.
LoopProgress ==
  (phase = "loop" /\ open # <<>>) =>
    /\ open' # <<>> =>
         IF open[1].loop = "string" /\ open'[1].loop = "escape"
         THEN /\ open'[1].n \in {1, 4, 5, 6}
              /\ Len(rd'.buffer_) >= 1
              /\ Len(Rest(rd')) <= Len(Rest(rd))
         ELSE /\ Rest(rd) # <<>>
              /\ Rest(rd') = Tail(Rest(rd))
    /\ (open' = <<>> /\ Ok(rd')) => Len(Rest(rd')) \in {Len(Rest(rd)) - 1, Len(Rest(rd))}

\* A loop that has ended, other than by the loss of the process, has done
\* what the operation's loop does as a whole.
LoopDone ==
  (phase = "loop" /\ open = <<>> /\ calls # <<>> /\ rd.exc # "HEAP_OVERFLOW") =>
    LoopSame(rd, LoopWhole(calls[Len(calls)].op, calls[Len(calls)].arg))

\* C32: on a finite input whose source raises an error at its end every
\* loop of the reader ends, by leaving or by an exception: the whitespace
\* skipping, the three skips of a tag of readStructBegin, the scans up to
\* '<' or '>' of readString, readBinary, readKey, readDouble and readBool,
\* and the numeric run; every iteration that does not end its loop
\* consumes a byte, so that no read operation runs on without consuming
\* input.
C32_Terminates ==
  /\ [][LoopProgress]_vars
  /\ []LoopDone
  /\ (phase = "loop" /\ open # <<>>) ~> (open = <<>>)

\* The scan up to '<' has run over an input of MaxLoopLen bytes without
\* one, consumed them all and ended by the error of the source.
C32_Witness ==
  /\ phase = "loop"
  /\ open = <<>>
  /\ Len(calls) = 1
  /\ calls[1].op = "scan"
  /\ Len(wire) = MaxLoopLen
  /\ rd.val = wire
  /\ rd.exc = "END_OF_FILE"
  /\ Rest(rd) = <<>>

\* The scan of readString has run over an entity and left at '<'.
C32_ReturnWitness ==
  /\ phase = "loop"
  /\ open = <<>>
  /\ Len(calls) = 1
  /\ calls[1].op = "string"
  /\ wire = <<"&","l","t",";","<">>
  /\ Ok(rd)
  /\ rd.val = <<"<">>
  /\ Rest(rd) = <<"<">>

====
